---------------------------- MODULE Spec2Model ----------------------------
(***************************************************************************)
(* JDA-Backend: the provider gateway (AIFactory), the project pipeline     *)
(* (ProjectService.createProject -> AIAnalysisService.analyzeProjectData), *)
(* the forensic report adapter and the response parser.                    *)
(*                                                                         *)
(* The specifications share the variables below:                           *)
(*   SpecFactory   arbitrary sequences of AIFactory.getService calls       *)
(*   Spec          one createProject call, from the parsed rows to the     *)
(*                 stored project, with every provider call's outcome      *)
(*                 chosen nondeterministically                             *)
(*   SpecForensic  runForensicAnalysisForTicket's adaptation of a parsed   *)
(*                 response into a report                                  *)
(*   SpecParser    cleanAndParseJSON on bounded texts                      *)
(*   SpecSection   extractSection on bounded labelled texts                *)
(*   SpecProgress  performAnalysis with a progress sink that may raise     *)
(*   SpecStatistics  analyzeWorkflowData and zScore on bounded rows        *)
(*   SpecTrend     calculateTrend on bounded sequences of values           *)
(*   SpecRisk      the risk ranking of analyzeWorkflowData                 *)
(*   SpecBehavior  the behaviour metrics and red flags                     *)
(*   SpecClassify  ruleBasedDelayClassification on bounded remarks         *)
(*   SpecTranscript  the transcript of runForensicAnalysisForTicket        *)
(*   SpecRefine    the pipeline on rows of one service                     *)
(*   SpecRemarks   analyzeRemarks on rows whose dates may be malformed     *)
(***************************************************************************)
EXTENDS Integers, Sequences, FiniteSets, TLC

VARIABLES
    \* ---- AIFactory (the gateway singleton)
    services,        \* Map<AIProvider, AIService>: provider id -> instance
    nextInst,        \* identity of the next constructed instance
    envKeys,         \* providers whose system credential is set in process.env
    calls,           \* number of getService calls made (SpecFactory)
    lastCall,        \* the last getService call and what it returned (SpecFactory)
    requested,       \* provider ids requested without a credential override
    handedOut,       \* provider id -> instances returned to override-free calls
    \* ---- createProject / analyzeProjectData
    workflowSteps,   \* the parsed rows
    provider,        \* createProject's provider argument
    apiKey,          \* createProject's apiKey argument
    hasAI,           \* ProjectService was constructed with an aiAnalysisService
    engine,          \* which analyzeWorkflowData built the statistics
    pc,              \* position in createProject
    stage,           \* sub-analysis of performAnalysis that is running
    run,             \* number of performAnalysis runs started
    aiService,       \* currentService of the running performAnalysis
    inflight,        \* provider calls issued and not yet settled
    timer,           \* the setTimeout the pipeline is suspended on
    progress,        \* last percentage given to logProgress
    statistics,      \* the ProjectStatistics object (mutated in place)
    targetTickets,   \* analyzeRemarks: the sorted ticket list
    processedCount,  \* analyzeRemarks: loop counter
    forensicReports, \* analyzeRemarks: ticket id -> report
    attempts,        \* ticket id -> provider calls issued for it in this run
    succeeded,       \* tickets whose runForensicAnalysisForTicket returned a report
    ticketsToAnalyze,\* analyzeJDARemarks: candidate positions in the hierarchy
    jdaI,            \* analyzeJDARemarks: loop index i
    cooldowns,       \* cooling periods elapsed in this analyzeJDARemarks call
    stageLog,        \* the sub-analyses entered in this run, in order
    failures,        \* run -> a provider call of the first four sub-analyses failed
    swallowed,       \* run -> a per-ticket provider call (forensic, hierarchy) failed
    outcome,         \* how analyzeProjectData ended
    stored,          \* the projects saved by dbService.saveProject
    returned,        \* what createProject resolved with
    \* ---- runForensicAnalysisForTicket on one parsed response
    fParsed,         \* the value cleanAndParseJSON returned
    fReport,         \* the report returned (or NoReport)
    fpc,
    \* ---- cleanAndParseJSON
    content,         \* the raw response text
    ppc,             \* position in cleanAndParseJSON
    candidate,       \* text from the first opening brace or bracket
    fixed,           \* candidate after the textual repairs
    evaluated,       \* every text handed to the Function constructor
    attempted,       \* the stages tried so far, in order, each with its success
    presult,         \* what cleanAndParseJSON returned
    \* ---- one call of a function without side effects
    arg,             \* its arguments
    out,             \* what it returned
    upc              \* "idle", "called" or "returned"

factoryVars == <<services, nextInst, envKeys, calls, lastCall, requested, handedOut>>
pipelineVars == <<workflowSteps, provider, apiKey, hasAI, engine, pc, stage, run,
                  aiService, inflight, timer, progress, statistics, targetTickets,
                  processedCount, forensicReports, attempts, succeeded,
                  ticketsToAnalyze, jdaI, cooldowns, stageLog, failures, swallowed, outcome,
                  stored, returned>>
forensicVars == <<fParsed, fReport, fpc>>
parserVars == <<content, ppc, candidate, fixed, evaluated, attempted, presult>>
pureVars == <<arg, out, upc>>
vars == <<factoryVars, pipelineVars, forensicVars, parserVars, pureVars>>

(***************************************************************************)
(* Bounds of the model.                                                    *)
(***************************************************************************)
MaxCalls == 4
MaxSteps == 3
MaxParts == 5

(***************************************************************************)
(* Small helpers.                                                          *)
(***************************************************************************)
Range(f) == {f[x] : x \in DOMAIN f}

SeqsUpTo(S, n) == UNION {[1..k -> S] : k \in 0..n}

Min(a, b) == IF a < b THEN a ELSE b

(***************************************************************************)
(* AIFactory.                                                              *)
(***************************************************************************)
NoKey == "none"          \* apiKey undefined or '' (both falsy)
NoInst == [id |-> 0, provider |-> "none", cred |-> "none"]
SystemCred == "system"   \* a key read from process.env

KeyProviders == {"openai", "gemini", "claude"}

\* new OllamaService / OpenAIService / GeminiService / ClaudeService
NewInstance(p, cred, n) == [id |-> n, provider |-> p, cred |-> cred]

\* The constructor: the default Ollama service is cached at once.
FactoryInit == [services |-> [q \in {"ollama"} |-> NewInstance("ollama", "none", 1)],
                nextInst |-> 2]

\* A result of getService / createServiceInstance: thrown, or an instance,
\* with the factory state it leaves.
Thrown(f) == [thrown |-> TRUE, inst |-> NoInst, f |-> f]
Gave(i, f) == [thrown |-> FALSE, inst |-> i, f |-> f]

RECURSIVE GetService(_, _, _, _)
RECURSIVE CreateServiceInstance(_, _, _, _)

\* createServiceInstance(provider, apiKey): the switch on the provider.
CreateServiceInstance(p, k, f, env) ==
    IF p = "ollama"
    THEN Gave(NewInstance("ollama", "none", f.nextInst),
              [f EXCEPT !.nextInst = @ + 1])
    ELSE IF p \in KeyProviders
    THEN \* const key = apiKey || process.env.X; if (!key) throw
         IF k = NoKey /\ p \notin env
         THEN Thrown(f)
         ELSE Gave(NewInstance(p, IF k # NoKey THEN k ELSE SystemCred, f.nextInst),
                   [f EXCEPT !.nextInst = @ + 1])
    ELSE \* default: warn, return this.getService('ollama')
         GetService("ollama", NoKey, f, env)

GetServiceNoCache(p, k, f, env) ==
    CreateServiceInstance(p, k, f, env)

\* getService(provider, apiKey)
GetService(p, k, f, env) ==
    IF k # NoKey
    THEN CreateServiceInstance(p, k, f, env)
    ELSE IF p \in DOMAIN f.services
    THEN Gave(f.services[p], f)
    ELSE LET r == CreateServiceInstance(p, NoKey, f, env)
         IN IF r.thrown
            THEN r
            ELSE Gave(r.inst,
                      [r.f EXCEPT !.services =
                          [q \in DOMAIN r.f.services \cup {p} |->
                              IF q = p THEN r.inst ELSE r.f.services[q]]])

Factory == [services |-> services, nextInst |-> nextInst]
(***************************************************************************)
(* The input rows.  A WorkflowStep keeps the fields the pipeline reads:    *)
(* ticketId (0 is the empty id), serviceName, the remark as a sequence of  *)
(* words, totalDaysRested, and rawRow's ApplicationDate / DeliverdOn as    *)
(* day numbers (0 is NULL or missing).  Ticket ids are numbers, ordered as *)
(* localeCompare orders the ids.                                           *)
(***************************************************************************)
StepKinds ==
    { [ticketId |-> 1, serviceName |-> "S1", remark |-> <<"xyz">>,
       totalDaysRested |-> 2, app |-> 1, del |-> 0],
      [ticketId |-> 2, serviceName |-> "S1", remark |-> <<"missing", "xyz">>,
       totalDaysRested |-> 9, app |-> 1, del |-> 4],
      [ticketId |-> 1, serviceName |-> "S2", remark |-> <<"late">>,
       totalDaysRested |-> 2, app |-> 0, del |-> 6],
      [ticketId |-> 0, serviceName |-> "S1", remark |-> <<>>,
       totalDaysRested |-> 9, app |-> 0, del |-> 0] }

(***************************************************************************)
(* mathUtils.ruleBasedDelayClassification: first matching rule wins.  A    *)
(* remark is a sequence of words and of parts of words, so a keyword that  *)
(* is part of a longer word is an element of the remark as well.           *)
(***************************************************************************)
Includes(r, kws) == \E i \in 1..Len(r) : r[i] \in kws

FixedCategories == {"Documentation Issues", "Communication Gaps", "Process Bottlenecks",
                    "Applicant-Side Issues", "Employee/System-Side Issues",
                    "External Dependencies", "Complexity/Special Cases"}

\* String.toLowerCase, word by word: the words of the model that hold a
\* capital letter, and what they become
LowerOf(word) ==
    CASE word = "Missing" -> "missing"
      [] word = "APPROVAL" -> "approval"
      [] word = "Late" -> "late"
      [] word = "Audit" -> "audit"
      [] OTHER -> word

toLowerCase(remark) == [i \in DOMAIN remark |-> LowerOf(remark[i])]

\* The first rule with a keyword in r.
FirstMatch(r) ==
    IF Includes(r, {"missing", "incomplete", "incorrect", "invalid", "document"})
    THEN "Documentation Issues"
    ELSE IF Includes(r, {"understand", "unclear", "language", "response"})
    THEN "Communication Gaps"
    ELSE IF Includes(r, {"approval", "coordination", "inspection", "verification",
                         "technical review"})
    THEN "Process Bottlenecks"
    ELSE IF Includes(r, {"late", "non-compliance", "payment", "unavailable"})
    THEN "Applicant-Side Issues"
    ELSE IF Includes(r, {"delayed processing", "workload", "system", "server", "down"})
    THEN "Employee/System-Side Issues"
    ELSE IF Includes(r, {"third-party", "clearance", "utility", "audit"})
    THEN "External Dependencies"
    ELSE IF Includes(r, {"complex", "dispute", "legal", "policy"})
    THEN "Complexity/Special Cases"
    ELSE "Uncategorized"

\* The rules applied to the remark as it is written.
ClassifyAsWritten(remark) == FirstMatch(remark)

\* const r = remark.toLowerCase(), then the rules in order
ruleBasedDelayClassification(remark) == FirstMatch(toLowerCase(remark))

(***************************************************************************)
(* mathUtils.buildJDAHierarchy.  Every row of the model has the default    *)
(* department and parent service, so the hierarchy is the list of services *)
(* in order of first appearance, each with one ticket-entry per row.       *)
(***************************************************************************)
ServiceOf(step) == IF step.serviceName = "" THEN "General" ELSE step.serviceName

RECURSIVE ServiceOrder(_, _)
ServiceOrder(steps, seen) ==
    IF steps = <<>> THEN <<>>
    ELSE IF ServiceOf(Head(steps)) \in seen
         THEN ServiceOrder(Tail(steps), seen)
         ELSE <<ServiceOf(Head(steps))>> \o
              ServiceOrder(Tail(steps), seen \cup {ServiceOf(Head(steps))})

NoRemarks == <<"No remarks">>

TicketEntry(t) ==
    [ticketId |-> t.ticketId,
     remarkOriginal |-> IF t.remark = <<>> THEN NoRemarks ELSE t.remark,
     remarkEnglishSummary |-> IF t.remark = <<>> THEN NoRemarks ELSE t.remark,
     employeeAnalysis |-> "unset",
     applicantAnalysis |-> "unset",
     detectedCategory |-> ruleBasedDelayClassification(t.remark),
     daysRested |-> t.totalDaysRested]

buildJDAHierarchy(steps) ==
    LET order == ServiceOrder(steps, {})
    IN [s \in 1..Len(order) |->
           LET group == SelectSeq(steps, LAMBDA x : ServiceOf(x) = order[s])
           IN [name |-> order[s],
               count |-> Len(group),
               tickets |-> [i \in 1..Len(group) |-> TicketEntry(group[i])]]]

(***************************************************************************)
(* analyzeWorkflowData: the scalar summaries the pipeline carries, and the *)
(* hierarchy.  csvAnalyzer's engine builds no hierarchy, mathUtils' does.  *)
(***************************************************************************)
RECURSIVE SumDays(_)
SumDays(steps) ==
    IF steps = <<>> THEN 0 ELSE Head(steps).totalDaysRested + SumDays(Tail(steps))

NoInsights == [present |-> FALSE]

analyzeWorkflowData(steps, eng) ==
    [totalWorkflowSteps |-> Len(steps),
     totalTickets |-> Cardinality({steps[i].ticketId : i \in 1..Len(steps)}),
     sumDaysRested |-> SumDays(steps),
     hasJdaHierarchy |-> (eng = "mathUtils"),
     jdaHierarchy |-> IF eng = "mathUtils" THEN buildJDAHierarchy(steps) ELSE <<>>,
     aiInsights |-> NoInsights]
(***************************************************************************)
(* analyzeRemarks: the ticket list.  Rows are grouped by ticket id (rows   *)
(* with an empty id are skipped), each ticket gets the delay between the   *)
(* first ApplicationDate and the first DeliverdOn among its rows (0 when   *)
(* either is missing), and the list is sorted by delay descending, then id.*)
(***************************************************************************)
RECURSIVE TicketOrder(_, _)
\* the keys of ticketMap, in insertion order
TicketOrder(steps, seen) ==
    IF steps = <<>> THEN <<>>
    ELSE LET t == Head(steps).ticketId
         IN IF t = 0 \/ t \in seen
            THEN TicketOrder(Tail(steps), seen)
            ELSE <<t>> \o TicketOrder(Tail(steps), seen \cup {t})

TicketDelay(steps, t) ==
    LET mine == SelectSeq(steps, LAMBDA x : x.ticketId = t)
        apps == SelectSeq(mine, LAMBDA x : x.app # 0)
        dels == SelectSeq(mine, LAMBDA x : x.del # 0)
    IN IF apps # <<>> /\ dels # <<>> THEN Head(dels).del - Head(apps).app ELSE 0

\* (a, b) => b.delay - a.delay || a.id.localeCompare(b.id)
Before(a, b) == a.delay > b.delay \/ (a.delay = b.delay /\ a.id < b.id)

RECURSIVE SortTickets(_)
SortTickets(S) ==
    IF S = {} THEN <<>>
    ELSE LET first == CHOOSE a \in S : \A b \in S \ {a} : Before(a, b)
         IN <<first>> \o SortTickets(S \ {first})

ValidTickets(steps) ==
    LET ids == TicketOrder(steps, {})
    IN SortTickets({[id |-> ids[i], delay |-> TicketDelay(steps, ids[i])]
                       : i \in 1..Len(ids)})

(***************************************************************************)
(* A parsed response, as far as the callers look at it: the three nested   *)
(* sub-objects (absent, or the set of their fields that are set), the      *)
(* top-level scalar keys that hold a truthy value, and the value of        *)
(* "category".                                                             *)
(***************************************************************************)
EmployeeFields == {"summary", "totalEmployeeRemarks", "keyActions",
                   "responseTimeliness", "communicationClarity", "inactionFlags"}
ApplicantFields == {"summary", "totalApplicantRemarks", "keyActions",
                    "responseTimeliness", "sentimentTrend", "complianceLevel"}
DelayFields == {"primaryDelayCategory", "primaryCategoryConfidence",
                "categorySummary", "allApplicableCategories", "processGaps",
                "painPoints", "forcefulDelays"}

Absent == [present |-> FALSE, fields |-> {}]
Obj(fs) == [present |-> TRUE, fields |-> fs]

\* The keys the flat branch of runForensicAnalysisForTicket tests.
FlatTriggers == {"summary", "rootCause", "sentimentSummary", "ticketInsightSummary",
                 "englishSummary", "employeeAnalysis"}

NoReport == [present |-> FALSE]

\* A sub-object of a report: the fields it holds, and where it came from.
Sub(fs) == [fields |-> fs]

\* runForensicAnalysisForTicket, from "if (parsed)" on: the report built from
\* a parsed (truthy) value, or NoReport when no branch recognises it.
ForensicReport(parsed) ==
    IF parsed.emp.present
    THEN [present |-> TRUE,
          employeeRemarkAnalysis |-> Sub(parsed.emp.fields),
          applicantRemarkAnalysis |->
              IF parsed.app.present THEN Sub(parsed.app.fields)
              ELSE Sub(ApplicantFields),
          delayAnalysis |->
              Sub(DelayFields \cup parsed.delay.fields \cup {"documentClarityAnalysis"}),
          sentimentSummary |->
              IF "sentimentSummary" \in parsed.flat THEN "parsed" ELSE "default",
          ticketInsightSummary |->
              IF "ticketInsightSummary" \in parsed.flat THEN "parsed" ELSE "default"]
    ELSE IF parsed.delay.present \/ parsed.flat \cap FlatTriggers # {}
    THEN [present |-> TRUE,
          employeeRemarkAnalysis |-> Sub(EmployeeFields),
          applicantRemarkAnalysis |-> Sub(ApplicantFields),
          delayAnalysis |->
              Sub(DelayFields \cup parsed.delay.fields \cup {"documentClarityAnalysis"}),
          sentimentSummary |->
              IF "sentimentSummary" \in parsed.flat THEN "parsed" ELSE "default",
          ticketInsightSummary |->
              IF parsed.flat \cap {"ticketInsightSummary", "summary"} # {}
              THEN "parsed" ELSE "default"]
    ELSE NoReport

\* What one provider call of the forensic stage can come to: the call fails,
\* cleanAndParseJSON returns null or throws, or it returns a parsed value.
ParsedValue(emp, app, delay, flat, cat) ==
    [emp |-> emp, app |-> app, delay |-> delay, flat |-> flat, category |-> cat]

ForensicReplies ==
    { [kind |-> "fail", parsed |-> ParsedValue(Absent, Absent, Absent, {}, "")],
      [kind |-> "unrecoverable", parsed |-> ParsedValue(Absent, Absent, Absent, {}, "")],
      [kind |-> "parsed", parsed |-> ParsedValue(Absent, Absent, Absent, {"category"}, "Other")],
      [kind |-> "parsed", parsed |-> ParsedValue(Obj(EmployeeFields), Absent, Absent, {}, "")],
      [kind |-> "parsed", parsed |-> ParsedValue(Absent, Absent, Absent, {"summary"}, "")] }

\* runForensicAnalysisForTicket, from the provider call on.
ForensicOutcomeRethrow(reply) ==
    IF reply.kind = "fail" THEN [threw |-> TRUE, report |-> NoReport]
    ELSE IF reply.kind = "unrecoverable" THEN [threw |-> FALSE, report |-> NoReport]
    ELSE [threw |-> FALSE, report |-> ForensicReport(reply.parsed)]

ForensicOutcome(reply) ==
    IF reply.kind = "fail" THEN [threw |-> FALSE, report |-> NoReport]
    ELSE IF reply.kind = "unrecoverable" THEN [threw |-> FALSE, report |-> NoReport]
    ELSE [threw |-> FALSE, report |-> ForensicReport(reply.parsed)]
(***************************************************************************)
(* analyzeJDARemarks: candidates, batches, and the update of one entry.    *)
(***************************************************************************)
BATCH_SIZE == 2

RECURSIVE CandidatesFrom(_, _, _)
\* the positions pushed to ticketsToAnalyze, walking services and tickets in order
CandidatesFrom(h, sIdx, tIdx) ==
    IF sIdx > Len(h) THEN <<>>
    ELSE IF tIdx > Len(h[sIdx].tickets) THEN CandidatesFrom(h, sIdx + 1, 1)
    ELSE LET t == h[sIdx].tickets[tIdx]
         IN (IF t.detectedCategory = "Uncategorized" \/ t.daysRested > 7
             THEN <<[serviceIdx |-> sIdx, ticketIdx |-> tIdx]>> ELSE <<>>)
            \o CandidatesFrom(h, sIdx, tIdx + 1)

Candidates(h) == CandidatesFrom(h, 1, 1)

JdaReplies ==
    { [kind |-> "fail", parsed |-> ParsedValue(Absent, Absent, Absent, {}, "")],
      [kind |-> "unrecoverable", parsed |-> ParsedValue(Absent, Absent, Absent, {}, "")],
      [kind |-> "parsed", parsed |-> ParsedValue(Absent, Absent, Absent,
                                        {"englishSummary", "applicantAnalysis"}, "")],
      [kind |-> "parsed", parsed |-> ParsedValue(Absent, Absent, Absent,
                                        {"employeeAnalysis", "category"}, "Other")] }

\* The four assignments to the ticket, given a parsed (truthy) value.
RefineTicket(ticket, parsed) ==
    [ticket EXCEPT
        !.remarkEnglishSummary =
            IF "englishSummary" \in parsed.flat THEN <<"englishSummary">>
            ELSE ticket.remarkOriginal,
        !.employeeAnalysis =
            IF "employeeAnalysis" \in parsed.flat THEN "employeeAnalysis"
            ELSE IF "englishSummary" \in parsed.flat THEN "englishSummary"
            ELSE "Analysis pending...",
        !.applicantAnalysis =
            IF "applicantAnalysis" \in parsed.flat THEN "applicantAnalysis"
            ELSE "No specific applicant feedback detected.",
        !.detectedCategory =
            IF "category" \in parsed.flat THEN parsed.category
            ELSE ticket.detectedCategory]

JdaOutcomeRethrow(reply) ==
    IF reply.kind = "fail" THEN [threw |-> TRUE, update |-> FALSE]
    ELSE [threw |-> FALSE, update |-> reply.kind = "parsed"]

\* One item of the batch: both catch blocks absorb the failure.
JdaOutcome(reply) ==
    [threw |-> FALSE, update |-> reply.kind = "parsed"]

\* slice(i, i + BATCH_SIZE), as the calls the batch issues (i is 0-based)
BatchCalls(c, i) ==
    {[stage |-> "jda", item |-> k] : k \in (i + 1)..Min(i + BATCH_SIZE, Len(c))}

\* 90 + Math.floor((currentBatch / totalBatches) * 9)
JdaProgress(i, n) ==
    90 + (((i \div BATCH_SIZE) + 1) * 9) \div ((n + BATCH_SIZE - 1) \div BATCH_SIZE)

NeedsCooldownLate(i) == i > BATCH_SIZE

\* if (i > 0) await new Promise(resolve => setTimeout(resolve, DELAY_MS))
NeedsCooldown(i) == i > 0

(***************************************************************************)
(* performAnalysis: the order of the sub-analyses, the fallback decision   *)
(* of analyzeProjectData and createProject's handling of its error.        *)
(***************************************************************************)
StageOrder == <<"anomaly", "bottleneck", "recommendations", "tabular", "forensic", "jda">>

StageProgress(st) ==
    CASE st = "anomaly" -> 20 [] st = "bottleneck" -> 40
      [] st = "recommendations" -> 60 [] st = "tabular" -> 75
      [] st = "forensic" -> 85 [] OTHER -> 90

NextSimpleStageSwapped(st) ==
    CASE st = "anomaly" -> "recommendations" [] st = "recommendations" -> "bottleneck"
      [] st = "bottleneck" -> "tabular" [] OTHER -> "forensic"

\* The sub-analysis that follows one of the first four.
NextSimpleStage(st) ==
    CASE st = "anomaly" -> "bottleneck" [] st = "bottleneck" -> "recommendations"
      [] st = "recommendations" -> "tabular" [] OTHER -> "forensic"

CanFallbackAlways(prov, r) == r = 1

\* catch (error) { if (provider !== 'ollama') ... } around the first run only
CanFallback(prov, r) == prov # "ollama" /\ r = 1

AiErrorRejects == "rejected"   \* rethrown to the outer catch

\* createProject: catch (aiError) logs and continues to the save.
AiErrorHandling == "saving"

Call(st, item) == [stage |-> st, item |-> item]

EmptyReports == [x \in {} |-> NoReport]
NoAttempts == [t \in 0..2 |-> 0]
NoFailures == [r \in 1..2 |-> FALSE]

Insights(stats, tickets, reports) ==
    [present |-> TRUE,
     remarkAnalysis |-> IF tickets # <<>> /\ tickets[1].id \in DOMAIN reports
                        THEN reports[tickets[1].id] ELSE NoReport,
     forensicReports |-> reports,
     hasJdaIntelligence |-> stats.hasJdaHierarchy]

inputVars == <<workflowSteps, provider, apiKey, hasAI, engine, envKeys>>
factoryAux == <<calls, lastCall, requested, handedOut>>
forensicLoop == <<targetTickets, processedCount, forensicReports, attempts, succeeded>>
jdaLoop == <<ticketsToAnalyze, jdaI, cooldowns>>
otherSpecs == <<factoryAux, forensicVars, parserVars, pureVars>>

\* performAnalysis returned: analyzeProjectData returns the insights and
\* createProject attaches them to the statistics.
Finish(stats, tickets, reports) ==
    /\ stage' = "finished"
    /\ inflight' = {}
    /\ timer' = "none"
    /\ progress' = 100
    /\ statistics' = [stats EXCEPT !.aiInsights = Insights(stats, tickets, reports)]
    /\ outcome' = "insights"
    /\ pc' = "saving"

\* The loop head of analyzeJDARemarks at index i: progress, cooling period
\* when i > 0, then the batch's calls, all issued before the first settles.
BeginBatch(c, i, stats) ==
    /\ stage' = "jda"
    /\ progress' = JdaProgress(i, Len(c))
    /\ statistics' = stats
    /\ jdaI' = i
    /\ IF NeedsCooldown(i)
       THEN timer' = "cooldown" /\ inflight' = {}
       ELSE timer' = "none" /\ inflight' = BatchCalls(c, i)
    /\ UNCHANGED <<outcome, pc>>

\* From the return of analyzeRemarks to the next suspension.
StartJda(stats, log, tickets, reports) ==
    IF ~stats.hasJdaHierarchy
    THEN /\ Finish(stats, tickets, reports)
         /\ stageLog' = log
         /\ UNCHANGED jdaLoop
    ELSE LET c == Candidates(stats.jdaHierarchy)
         IN /\ stageLog' = Append(log, "jda")
            /\ ticketsToAnalyze' = c
            /\ cooldowns' = 0
            /\ IF c = <<>>
               THEN Finish(stats, tickets, reports) /\ jdaI' = 0
               ELSE BeginBatch(c, 0, stats)

\* From the return of generateTabularInsights to the next suspension.
StartForensic ==
    LET tickets == ValidTickets(workflowSteps)
    IN /\ targetTickets' = tickets
       /\ forensicReports' = EmptyReports
       /\ succeeded' = {}
       /\ IF tickets = <<>>
          THEN /\ processedCount' = 0
               /\ attempts' = NoAttempts
               /\ StartJda(statistics, Append(stageLog, "forensic"), tickets, EmptyReports)
          ELSE /\ processedCount' = 1
               /\ attempts' = [NoAttempts EXCEPT ![tickets[1].id] = 1]
               /\ stage' = "forensic"
               /\ stageLog' = Append(stageLog, "forensic")
               /\ inflight' = {Call("forensic", tickets[1].id)}
               /\ timer' = "none"
               /\ progress' = StageProgress("forensic")
               /\ UNCHANGED <<statistics, outcome, pc, jdaLoop>>

\* performAnalysis(currentService) up to its first provider call.
EnterRun(r, inst) ==
    /\ run' = r
    /\ aiService' = inst
    /\ stage' = "anomaly"
    /\ stageLog' = <<"anomaly">>
    /\ inflight' = {Call("anomaly", 0)}
    /\ timer' = "none"
    /\ progress' = StageProgress("anomaly")
    /\ targetTickets' = <<>>
    /\ processedCount' = 0
    /\ forensicReports' = EmptyReports
    /\ attempts' = NoAttempts
    /\ succeeded' = {}
    /\ ticketsToAnalyze' = <<>>
    /\ jdaI' = 0
    /\ cooldowns' = 0

\* The fallback service fetched with the credential of the request.
FallbackServiceWithKey(f, env) == GetService("ollama", apiKey, f, env)

\* aiService = this.aiFactory.getService('ollama') in the catch block
FallbackService(f, env) == GetService("ollama", NoKey, f, env)

\* performAnalysis threw: the catch blocks of analyzeProjectData, then, when
\* the error is rethrown, the catch of createProject.
FailRun ==
    IF CanFallback(provider, run)
    THEN LET g == FallbackService(Factory, envKeys)
         IN /\ EnterRun(2, g.inst)
            /\ services' = g.f.services
            /\ nextInst' = g.f.nextInst
            /\ UNCHANGED <<statistics, outcome, pc>>
    ELSE /\ outcome' = "threw"
         /\ pc' = AiErrorHandling
         /\ stage' = "failed"
         /\ inflight' = {}
         /\ timer' = "none"
         /\ UNCHANGED <<run, aiService, stageLog, progress, statistics, forensicLoop,
                        jdaLoop, services, nextInst>>
(***************************************************************************)
(* createProject, one action per stretch of code between two suspensions.  *)
(* The synchronous prefix is cut at the points where the project changes   *)
(* phase.                                                                  *)
(***************************************************************************)
NotComputed == [computed |-> FALSE]
NoProject == [present |-> FALSE]

\* catch (error) { reject(new Error('Failed to parse CSV: ...')) } and the
\* error callback of Papa.parse
OuterCatch == "rejected"

\* results.data.map(parseWorkflowStep), or the parse of the CSV fails
ParseRows(ok) ==
    /\ pc = "start"
    /\ pc' = IF ok THEN "Created" ELSE OuterCatch
    /\ UNCHANGED <<inputVars, otherSpecs, services, nextInst, stage, run, aiService,
                   inflight, timer, progress, statistics, forensicLoop, jdaLoop,
                   stageLog, failures, swallowed, outcome, stored, returned>>

\* const statistics = analyzeWorkflowData(workflowSteps)
ComputeStatistics ==
    /\ pc = "Created"
    /\ statistics' = analyzeWorkflowData(workflowSteps, engine)
    /\ pc' = "StatisticsComputed"
    /\ UNCHANGED <<inputVars, otherSpecs, services, nextInst, stage, run, aiService,
                   inflight, timer, progress, forensicLoop, jdaLoop,
                   stageLog, failures, swallowed, outcome, stored, returned>>

\* if (this.aiAnalysisService) { ... analyzeProjectData(...) }: the entry of
\* analyzeProjectData, logProgress('Initializing AI', 10).
StartGenerative ==
    /\ pc = "StatisticsComputed"
    /\ UNCHANGED <<inputVars, otherSpecs, failures, swallowed, stored, returned,
                   services, nextInst, run, aiService, inflight, timer,
                   statistics, forensicLoop, jdaLoop, stageLog>>
    /\ IF ~hasAI
       THEN pc' = "saving" /\ outcome' = "noService" /\ UNCHANGED <<stage, progress>>
       ELSE pc' = "GenerativeInProgress" /\ stage' = "init" /\ progress' = 10
            /\ UNCHANGED outcome

\* let aiService = this.aiFactory.getService(provider, apiKey), outside the
\* try: its error goes straight to createProject; then the first run up to
\* its first provider call.
InitService ==
    /\ pc = "GenerativeInProgress"
    /\ stage = "init"
    /\ UNCHANGED <<inputVars, otherSpecs, failures, swallowed, stored, returned>>
    /\ LET g == GetService(provider, apiKey, Factory, envKeys)
       IN IF g.thrown
          THEN /\ pc' = AiErrorHandling
               /\ outcome' = "threw"
               /\ stage' = "failed"
               /\ UNCHANGED <<services, nextInst, run, aiService, inflight, progress,
                              timer, statistics, forensicLoop, jdaLoop, stageLog>>
          ELSE /\ EnterRun(1, g.inst)
               /\ services' = g.f.services
               /\ nextInst' = g.f.nextInst
               /\ UNCHANGED <<statistics, outcome, pc>>

\* The provider call of one of the first four sub-analyses settles.
SettleSimple(ok) ==
    /\ pc = "GenerativeInProgress"
    /\ stage \in {"anomaly", "bottleneck", "recommendations", "tabular"}
    /\ Call(stage, 0) \in inflight
    /\ UNCHANGED <<inputVars, otherSpecs, swallowed, stored, returned>>
    /\ IF ok
       THEN /\ UNCHANGED <<run, aiService, failures, services, nextInst>>
            /\ IF NextSimpleStage(stage) = "forensic"
               THEN StartForensic
               ELSE /\ stage' = NextSimpleStage(stage)
                    /\ stageLog' = Append(stageLog, NextSimpleStage(stage))
                    /\ inflight' = {Call(NextSimpleStage(stage), 0)}
                    /\ progress' = StageProgress(NextSimpleStage(stage))
                    /\ UNCHANGED <<timer, statistics, forensicLoop, jdaLoop, outcome, pc>>
       ELSE /\ failures' = [failures EXCEPT ![run] = TRUE]
            /\ FailRun

\* The provider call of runForensicAnalysisForTicket settles; analyzeRemarks
\* stores the report and goes on to the next ticket or returns.
SettleForensic(reply) ==
    /\ pc = "GenerativeInProgress"
    /\ stage = "forensic"
    /\ inflight # {}
    /\ UNCHANGED <<inputVars, otherSpecs, stored, returned>>
    /\ LET t == targetTickets[processedCount].id
           o == ForensicOutcome(reply)
           reports == IF o.report.present
                      THEN [x \in DOMAIN forensicReports \cup {t} |->
                               IF x = t THEN o.report ELSE forensicReports[x]]
                      ELSE forensicReports
       IN IF o.threw
          THEN /\ failures' = [failures EXCEPT ![run] = TRUE]
               /\ FailRun
               /\ UNCHANGED swallowed
          ELSE /\ swallowed' = [swallowed EXCEPT ![run] = @ \/ reply.kind = "fail"]
               /\ UNCHANGED <<run, aiService, failures, services, nextInst>>
               /\ IF processedCount < Len(targetTickets)
                  THEN /\ forensicReports' = reports
                       /\ succeeded' = IF o.report.present THEN succeeded \cup {t}
                                       ELSE succeeded
                       /\ processedCount' = processedCount + 1
                       /\ timer' = "forensicDelay"
                       /\ inflight' = {}
                       /\ UNCHANGED <<targetTickets, attempts, stage, stageLog, progress,
                                      statistics, jdaLoop, outcome, pc>>
                  ELSE /\ forensicReports' = reports
                       /\ succeeded' = IF o.report.present THEN succeeded \cup {t}
                                       ELSE succeeded
                       /\ UNCHANGED <<targetTickets, processedCount, attempts>>
                       /\ StartJda(statistics, stageLog, targetTickets, reports)

\* await new Promise(resolve => setTimeout(resolve, 1000)) between two tickets
ForensicDelayElapsed ==
    /\ pc = "GenerativeInProgress"
    /\ timer = "forensicDelay"
    /\ timer' = "none"
    /\ inflight' = {Call("forensic", targetTickets[processedCount].id)}
    /\ attempts' = [attempts EXCEPT ![targetTickets[processedCount].id] = @ + 1]
    /\ UNCHANGED <<inputVars, otherSpecs, services, nextInst, pc, stage, run, aiService,
                   progress, statistics, targetTickets, processedCount, forensicReports,
                   succeeded, jdaLoop, stageLog, failures, swallowed, outcome, stored,
                   returned>>

\* The hierarchy with every ticket of the candidate's service refined.
RefinedService(h, c, parsed) ==
    [h EXCEPT ![c.serviceIdx].tickets =
        [i \in DOMAIN @ |-> RefineTicket(@[i], parsed)]]

\* The hierarchy with the ticket at candidate position c refined.
Refined(h, c, parsed) ==
    [h EXCEPT ![c.serviceIdx].tickets[c.ticketIdx] = RefineTicket(@, parsed)]

\* One item of the running batch settles; when it is the batch's last, the
\* loop goes on to the next batch or analyzeJDARemarks returns.
SettleJda(k, reply) ==
    /\ pc = "GenerativeInProgress"
    /\ stage = "jda"
    /\ Call("jda", k) \in inflight
    /\ UNCHANGED <<inputVars, otherSpecs, stored, returned, forensicLoop>>
    /\ LET o == JdaOutcome(reply)
           stats == IF o.update
                    THEN [statistics EXCEPT !.jdaHierarchy =
                             Refined(@, ticketsToAnalyze[k], reply.parsed)]
                    ELSE statistics
           rest == inflight \ {Call("jda", k)}
       IN IF o.threw
          THEN /\ failures' = [failures EXCEPT ![run] = TRUE]
               /\ UNCHANGED swallowed
               /\ IF CanFallback(provider, run)
                  THEN LET g == FallbackService(Factory, envKeys)
                       IN /\ run' = 2
                          /\ aiService' = g.inst
                          /\ services' = g.f.services
                          /\ nextInst' = g.f.nextInst
                          /\ stage' = "anomaly"
                          /\ stageLog' = <<"anomaly">>
                          /\ inflight' = {Call("anomaly", 0)}
                          /\ timer' = "none"
                          /\ progress' = StageProgress("anomaly")
                          /\ ticketsToAnalyze' = <<>>
                          /\ jdaI' = 0
                          /\ cooldowns' = 0
                          /\ UNCHANGED <<statistics, outcome, pc>>
                  ELSE /\ outcome' = "threw"
                       /\ pc' = AiErrorHandling
                       /\ stage' = "failed"
                       /\ inflight' = {}
                       /\ timer' = "none"
                       /\ UNCHANGED <<run, aiService, stageLog, progress, statistics,
                                      jdaLoop, services, nextInst>>
          ELSE /\ swallowed' = [swallowed EXCEPT ![run] = @ \/ reply.kind = "fail"]
               /\ UNCHANGED <<run, aiService, failures, services, nextInst, stageLog,
                              ticketsToAnalyze, cooldowns>>
               /\ IF rest # {}
                  THEN /\ inflight' = rest
                       /\ statistics' = stats
                       /\ UNCHANGED <<stage, timer, progress, jdaI, outcome, pc>>
                  ELSE IF jdaI + BATCH_SIZE < Len(ticketsToAnalyze)
                  THEN BeginBatch(ticketsToAnalyze, jdaI + BATCH_SIZE, stats)
                  ELSE Finish(stats, targetTickets, forensicReports) /\ UNCHANGED jdaI

\* The cooling period before a batch is over: the batch's calls are issued.
CooldownElapsed ==
    /\ pc = "GenerativeInProgress"
    /\ timer = "cooldown"
    /\ timer' = "none"
    /\ cooldowns' = cooldowns + 1
    /\ inflight' = BatchCalls(ticketsToAnalyze, jdaI)
    /\ UNCHANGED <<inputVars, otherSpecs, services, nextInst, pc, stage, run, aiService,
                   progress, statistics, forensicLoop, ticketsToAnalyze, jdaI, stageLog,
                   failures, swallowed, outcome, stored, returned>>

\* metadata, projectData, this.dbService.saveProject(projectData), resolve
SaveProject(ok) ==
    /\ pc = "saving"
    /\ LET project == [present |-> TRUE,
                       totalRecords |-> Len(workflowSteps),
                       statistics |-> statistics]
       IN IF ok
          THEN stored' = stored \cup {project} /\ returned' = project
               /\ pc' = "resolved"
          ELSE UNCHANGED <<stored, returned>> /\ pc' = OuterCatch
    /\ UNCHANGED <<inputVars, otherSpecs, services, nextInst, stage, run, aiService,
                   inflight, timer, progress, statistics, forensicLoop, jdaLoop,
                   stageLog, failures, swallowed, outcome>>

IdleFactoryAux ==
    /\ calls = 0
    /\ lastCall = [made |-> FALSE]
    /\ requested = {}
    /\ handedOut = [q \in {} |-> {}]

IdleForensic == fParsed = ParsedValue(Absent, Absent, Absent, {}, "")
                /\ fReport = NoReport /\ fpc = "idle"

IdlePure == arg = <<>> /\ out = <<>> /\ upc = "idle"

IdleParser == content = <<>> /\ ppc = "idle" /\ candidate = <<>> /\ fixed = <<>>
              /\ evaluated = {} /\ attempted = <<>>
              /\ presult = [kind |-> "none", value |-> <<"undefined", <<>>>>]

IdlePipeline ==
    /\ workflowSteps = <<>> /\ provider = "ollama" /\ apiKey = NoKey
    /\ hasAI = FALSE /\ engine = "mathUtils"
    /\ pc = "idle" /\ stage = "none" /\ run = 0 /\ aiService = NoInst
    /\ inflight = {} /\ timer = "none" /\ progress = 0
    /\ statistics = NotComputed
    /\ targetTickets = <<>> /\ processedCount = 0 /\ forensicReports = EmptyReports
    /\ attempts = NoAttempts /\ succeeded = {}
    /\ ticketsToAnalyze = <<>> /\ jdaI = 0 /\ cooldowns = 0 /\ stageLog = <<>>
    /\ failures = NoFailures /\ swallowed = NoFailures
    /\ outcome = "none" /\ stored = {} /\ returned = NoProject

Init ==
    /\ workflowSteps \in SeqsUpTo(StepKinds, MaxSteps)
    /\ provider \in {"ollama", "openai", "bogus"}
    \* the request's apiKey and process.env matter for a key provider only
    /\ apiKey \in IF provider \in KeyProviders THEN {NoKey, "userKey"} ELSE {NoKey}
    /\ envKeys \in IF provider \in KeyProviders /\ apiKey = NoKey
                   THEN {{}, {"openai"}} ELSE {{}}
    /\ hasAI \in BOOLEAN
    /\ engine \in {"mathUtils", "csvAnalyzer"}
    /\ services = FactoryInit.services
    /\ nextInst = FactoryInit.nextInst
    /\ pc = "start" /\ stage = "none" /\ run = 0 /\ aiService = NoInst
    /\ inflight = {} /\ timer = "none" /\ progress = 0
    /\ statistics = NotComputed
    /\ targetTickets = <<>> /\ processedCount = 0 /\ forensicReports = EmptyReports
    /\ attempts = NoAttempts /\ succeeded = {}
    /\ ticketsToAnalyze = <<>> /\ jdaI = 0 /\ cooldowns = 0 /\ stageLog = <<>>
    /\ failures = NoFailures /\ swallowed = NoFailures
    /\ outcome = "none" /\ stored = {} /\ returned = NoProject
    /\ IdleFactoryAux /\ IdleForensic /\ IdleParser /\ IdlePure

Next ==
    \/ \E ok \in BOOLEAN : ParseRows(ok)
    \/ ComputeStatistics
    \/ StartGenerative
    \/ InitService
    \/ \E ok \in BOOLEAN : SettleSimple(ok)
    \/ \E reply \in ForensicReplies : SettleForensic(reply)
    \/ ForensicDelayElapsed
    \/ \E k \in 1..MaxSteps, reply \in JdaReplies : SettleJda(k, reply)
    \/ CooldownElapsed
    \/ \E ok \in BOOLEAN : SaveProject(ok)

Spec == Init /\ [][Next]_vars

(***************************************************************************)
(* Claims on the pipeline (Spec).                                          *)
(***************************************************************************)
AnalysisOver == pc \in {"saving", "resolved", "rejected"}
ForensicEntered == "forensic" \in Range(stageLog)
ForensicDone == ForensicEntered /\ stage \in {"jda", "finished"}
IsPrefix(a, b) == Len(a) <= Len(b) /\ \A i \in 1..Len(a) : a[i] = b[i]
TicketIdsOf(steps) == {steps[i].ticketId : i \in 1..Len(steps)} \ {0}

\* C1 as stated: once analyzeProjectData is over, any failed provider call of
\* the first run (in any of the six sub-analyses) has led to a second run on
\* the default provider, and an error reached the caller only after a failed
\* second run.
C1_AnyFailureRetriesOnce ==
    (AnalysisOver /\ run >= 1) =>
        /\ (failures[1] \/ swallowed[1]) => (run = 2 /\ aiService.provider = "ollama")
        /\ outcome = "threw" => (run = 2 /\ failures[2])

\* C1 amended: the stage is re-run (once, on the default provider) exactly
\* when a call of the first four sub-analyses failed in the first run and the
\* configured provider is not ollama; with ollama configured that failure
\* reaches the caller at once; an error reaches the caller only through a
\* failed call of the first four sub-analyses in the last run; a failed
\* per-ticket call (forensic, hierarchy) fails no run.
C1_FallbackOnEarlyFailure ==
    /\ run <= 2
    /\ run = 2 <=> (failures[1] /\ provider # "ollama")
    /\ run = 2 => aiService.provider = "ollama"
    /\ (outcome = "threw" /\ run >= 1) =>
           /\ failures[run]
           /\ run = (IF provider = "ollama" THEN 1 ELSE 2)
    /\ (run >= 1 /\ failures[run]) => ~ForensicEntered
    /\ outcome = "insights" => ~failures[run]

C1_Witness ==
    pc = "resolved" /\ run = 2 /\ outcome = "insights" /\ swallowed[2]

PhaseRank ==
    CASE pc = "start" -> 0
      [] pc = "Created" -> 1
      [] pc = "StatisticsComputed" -> 2
      [] pc = "GenerativeInProgress" -> 3
      [] pc = "saving" -> IF hasAI THEN 3 ELSE 2
      [] pc = "resolved" -> 4
      [] OTHER -> 5

Enriched ==
    /\ pc = "resolved"
    /\ returned.statistics.aiInsights.present
    /\ ~swallowed[run]
    /\ DOMAIN returned.statistics.aiInsights.forensicReports = TicketIdsOf(workflowSteps)

EnrichedPartial == pc = "resolved" /\ ~Enriched

C4_NoFailedState ==
    /\ pc \notin {"resolved", OuterCatch} => ENABLED Next
    /\ pc \in {"start", "Created", "StatisticsComputed", "GenerativeInProgress",
               "saving", "resolved", OuterCatch}
    /\ pc = OuterCatch => ~returned.present /\ stored = {}
    /\ pc = "resolved" =>
          /\ Enriched \/ EnrichedPartial
          /\ returned.present /\ returned \in stored
          /\ returned.statistics.totalWorkflowSteps = Len(workflowSteps)

C4_PhasesNeverRegress ==
    /\ []C4_NoFailedState
    /\ [][/\ PhaseRank' >= PhaseRank
          /\ pc' = OuterCatch => pc \in {"start", "saving"}]_vars

C4_Witness ==
    pc = "resolved" /\ outcome = "threw" /\ run = 2 /\ EnrichedPartial

\* C5: when the generative stage has failed for good, the project returned
\* and stored carries the statistics exactly as analyzeWorkflowData computed
\* them, without insights.
C5_StatisticsUntouchedOnFailure ==
    (pc = "resolved" /\ outcome = "threw") =>
        /\ returned.statistics = analyzeWorkflowData(workflowSteps, engine)
        /\ returned \in stored

C5_Witness ==
    /\ pc = "resolved" /\ outcome = "threw" /\ run = 2
    /\ returned.statistics.hasJdaHierarchy
    /\ Candidates(returned.statistics.jdaHierarchy) # <<>>

FactoryProviders == {"ollama", "openai", "gemini", "bogus"}
FactoryKeys == {NoKey, "user1"}
KnownProviders == {"ollama"} \cup KeyProviders

\* One call getService(p, k) by any caller of the singleton.
GetServiceCall(p, k) ==
    /\ calls < MaxCalls
    /\ LET g == GetService(p, k, Factory, envKeys)
           cached == k = NoKey /\ ~g.thrown
       IN /\ services' = g.f.services
          /\ nextInst' = g.f.nextInst
          /\ lastCall' = [made |-> TRUE, provider |-> p, key |-> k,
                          thrown |-> g.thrown, inst |-> g.inst,
                          before |-> Factory,
                          repeat |-> k = NoKey /\ p \in DOMAIN handedOut]
          /\ requested' = IF k = NoKey THEN requested \cup {p} ELSE requested
          /\ handedOut' =
                IF cached
                THEN [q \in DOMAIN handedOut \cup {p} |->
                        (IF q \in DOMAIN handedOut THEN handedOut[q] ELSE {})
                        \cup (IF q = p THEN {g.inst} ELSE {})]
                ELSE handedOut
    /\ calls' = calls + 1
    /\ UNCHANGED <<envKeys, pipelineVars, forensicVars, parserVars, pureVars>>

InitFactory ==
    /\ envKeys \in SUBSET {"openai", "gemini"}
    /\ services = FactoryInit.services
    /\ nextInst = FactoryInit.nextInst
    /\ IdleFactoryAux /\ IdlePipeline /\ IdleForensic /\ IdleParser /\ IdlePure

NextFactory == \E p \in FactoryProviders, k \in FactoryKeys : GetServiceCall(p, k)

SpecFactory == InitFactory /\ [][NextFactory]_vars

\* C7: a call with a credential override returns a newly constructed
\* instance that is not in the cache, and leaves the cache as it was,
\* whatever the provider identifier.
C7_OverrideIsFreshAndUncached ==
    (lastCall.made /\ lastCall.key # NoKey) =>
        /\ ~lastCall.thrown
        /\ lastCall.inst.id = lastCall.before.nextInst
        /\ lastCall.inst \notin Range(services)
        /\ services = lastCall.before.services

\* C8 as stated: without an override, calls naming one provider return one
\* instance, the cache holds an instance for every provider requested so
\* far, and an unknown identifier yields the default provider's instance.
C8_OnePerRequestedProvider ==
    /\ \A p \in DOMAIN handedOut : Cardinality(handedOut[p]) <= 1
    /\ requested \subseteq DOMAIN services
    /\ \A p \in requested \ KnownProviders :
          p \in DOMAIN services /\ services[p] = services["ollama"]

\* C8 amended: without an override, the calls naming one provider that
\* return all return the instance cached under that identifier; the cache
\* holds an entry for the default provider and for exactly the identifiers
\* for which such a call has returned; the only requests that leave no
\* entry are those of a key provider with no system key, which throw; an
\* unknown identifier is cached as the default provider's instance.
C8_OnePerReturnedProvider ==
    /\ \A p \in DOMAIN handedOut :
          p \in DOMAIN services /\ handedOut[p] = {services[p]}
    /\ DOMAIN services = DOMAIN handedOut \cup {"ollama"}
    /\ \A p \in requested \ DOMAIN handedOut : p \in KeyProviders /\ p \notin envKeys
    /\ \A p \in DOMAIN handedOut \ KnownProviders :
          services[p] = services["ollama"] /\ services[p].provider = "ollama"
    /\ (lastCall.made /\ lastCall.key = NoKey /\ lastCall.thrown) =>
          services = lastCall.before.services

C8_Witness ==
    /\ lastCall.made /\ lastCall.repeat /\ lastCall.provider = "gemini"
    /\ ~lastCall.thrown
    /\ "bogus" \in DOMAIN handedOut
    /\ "openai" \in requested \ DOMAIN handedOut

(***************************************************************************)
(* SpecForensic: runForensicAnalysisForTicket on any parsed shape.         *)
(***************************************************************************)
EmployeeShapes == {Absent, Obj({}), Obj({"summary"}), Obj(EmployeeFields)}
ApplicantShapes == {Absent, Obj({"summary"}), Obj(ApplicantFields)}
DelayShapes == {Absent, Obj({"primaryDelayCategory"}),
                Obj(DelayFields \cup {"documentClarityAnalysis"})}
FlatShapes == SUBSET {"summary", "sentimentSummary", "category"}

InitForensic ==
    /\ fParsed \in {ParsedValue(e, a, d, fl, "") :
                       e \in EmployeeShapes, a \in ApplicantShapes,
                       d \in DelayShapes, fl \in FlatShapes}
    /\ fReport = NoReport
    /\ fpc = "parsed"
    /\ services = FactoryInit.services /\ nextInst = FactoryInit.nextInst
    /\ envKeys = {}
    /\ IdleFactoryAux /\ IdlePipeline /\ IdleParser /\ IdlePure

\* if (parsed) { ... }: the report returned to analyzeRemarks.
BuildReport ==
    /\ fpc = "parsed"
    /\ fReport' = ForensicReport(fParsed)
    /\ fpc' = "returned"
    /\ UNCHANGED <<fParsed, factoryVars, pipelineVars, parserVars, pureVars>>

NextForensic == BuildReport

SpecForensic == InitForensic /\ [][NextForensic]_vars

\* C9: a report that runForensicAnalysisForTicket returns has all five parts
\* and every sub-object has all its required fields, whatever shape the
\* parser returned.
C9_ReportHasFullSchema ==
    (fpc = "returned" /\ fReport.present) =>
        /\ EmployeeFields \subseteq fReport.employeeRemarkAnalysis.fields
        /\ ApplicantFields \subseteq fReport.applicantRemarkAnalysis.fields
        /\ (DelayFields \cup {"documentClarityAnalysis"})
              \subseteq fReport.delayAnalysis.fields
        /\ fReport.sentimentSummary \in {"parsed", "default"}
        /\ fReport.ticketInsightSummary \in {"parsed", "default"}

(***************************************************************************)
(* cleanAndParseJSON.  A text is a sequence of lexemes: punctuation, one   *)
(* space, digits, quoted strings, words.  The lexemes of the model hold no *)
(* single quote, no line break and no backslash, so Fix 7 and the          *)
(* replacements of line breaks and backslashes change nothing here.        *)
(***************************************************************************)
MinOf(S) == CHOOSE x \in S : \A y \in S : x <= y

Quoted(k) == "\"" \o k \o "\""
\* The code-fence markers (three backquotes, with or without json).
Fences == {"<fence>json", "<fence>"}
Space == " "
ExtractKeys == <<"employeeRemarkAnalysis", "applicantRemarkAnalysis", "delayAnalysis">>
FlatKeys == {"sentimentSummary", "ticketInsightSummary", "category",
             "englishSummary", "employeeAnalysis", "applicantAnalysis"}
\* The quoted strings of the texts; the last two are the keys that a
\* relaxed evaluation makes of the bare keys 1 and 11.
StringLexemes == {Quoted(ExtractKeys[i]) : i \in 1..3} \cup {Quoted(k) : k \in FlatKeys}
                    \cup {Quoted("a"), Quoted("b"), Quoted("1"), Quoted("11")}
dangerousKeywords == {"process", "require", "import", "global", "window", "eval",
                      "function", "=>", "class"}
\* The call process.exit(1), one lexeme; it holds the keyword process.
ExitCall == "process.exit(1)"
Lexemes == {"{", "}", ":", ",", "1", "process", Quoted("employeeRemarkAnalysis")}

IsString(tok) == tok \in StringLexemes
IsDigit(tok) == tok \in {"1", "2", "3"}
\* The words of the texts that JavaScript reads as identifiers.
IsIdentStart(tok) == tok \in {"process", "NaN"}
IsIdentPart(tok) == IsIdentStart(tok) \/ IsDigit(tok) \/ tok = "null"
Escaped(tok) == "\\" \o tok
EndsWithQuote(tok) == IsString(tok) \/ \E s \in StringLexemes : tok = Escaped(s)

RECURSIVE Concat(_)
Concat(toks) == IF toks = <<>> THEN "" ELSE Head(toks) \o Concat(Tail(toks))

\* The first position from i on that holds no white space.
RECURSIVE Skip(_, _)
Skip(t, i) == IF i <= Len(t) /\ t[i] = Space THEN Skip(t, i + 1) ELSE i

RECURSIVE Trim(_)
Trim(t) ==
    IF t = <<>> THEN t
    ELSE IF Head(t) = Space THEN Trim(Tail(t))
    ELSE IF t[Len(t)] = Space THEN Trim(SubSeq(t, 1, Len(t) - 1))
    ELSE t

\* clean: content with both code-fence markers replaced by '', trimmed
Clean(text) == Trim(SelectSeq(text, LAMBDA tok : tok \notin Fences))

\* text.indexOf of the first lexeme in toks, 0 when there is none
FirstIndex(text, toks) ==
    IF \E i \in 1..Len(text) : text[i] \in toks
    THEN MinOf({i \in 1..Len(text) : text[i] \in toks})
    ELSE 0

LastIndex(text, toks) ==
    IF \E i \in 1..Len(text) : text[i] \in toks
    THEN CHOOSE i \in 1..Len(text) :
            text[i] \in toks /\ \A j \in (i + 1)..Len(text) : text[j] \notin toks
    ELSE 0

\* candidate = clean.substring(startIdx), from the first { or [
Candidate(clean) ==
    LET startIdx == FirstIndex(clean, {"{", "["})
    IN IF startIdx = 0 THEN <<>> ELSE SubSeq(clean, startIdx, Len(clean))

(***************************************************************************)
(* The values of JSON.parse and of an evaluated expression.  An object is  *)
(* a function from its keys, so neither the order of the members nor a     *)
(* repeated key shows in the value.                                        *)
(***************************************************************************)
Null == <<"null", <<>>>>
Undefined == <<"undefined", <<>>>>
NaNValue == <<"NaN", <<>>>>
HostObject == <<"host", <<>>>>          \* the process object of the runtime
Num(digits) == <<"number", digits>>
Str(tok) == <<"string", <<tok>>>>
ObjectValue(f) == <<"object", f>>
ArrayValue(items) == <<"array", items>>
EmptyMembers == [k \in {} |-> Null]
Put(f, key, v) == [k \in DOMAIN f \cup {key} |-> IF k = key THEN v ELSE f[k]]

\* if (parsed): every digit of the texts is positive, every string non-empty
Truthy(v) == v[1] \in {"object", "array", "number", "string", "host"}

\* What an identifier that stands alone evaluates to.
GlobalValue(tok) == IF tok = "process" THEN HostObject ELSE NaNValue

\* The end of the run of digits (a number) that starts at i.
RECURSIVE NumberEnd(_, _)
NumberEnd(t, i) ==
    IF i <= Len(t) /\ IsDigit(t[i]) THEN NumberEnd(t, i + 1) ELSE i

\* The end of the identifier that starts at i: adjacent words and digits
\* are one identifier.
RECURSIVE IdentEnd(_, _)
IdentEnd(t, i) ==
    IF i <= Len(t) /\ IsIdentPart(t[i]) THEN IdentEnd(t, i + 1) ELSE i

\* A parse from a position: next is the position after the value (0 when
\* there is none), fx the effects of evaluating it, in order: "throw" for a
\* reference to an unknown identifier, "exit" for the call of process.exit.
Fail == [next |-> 0, val |-> Null, fx |-> <<>>]
Ok(n, v, fx) == [next |-> n, val |-> v, fx |-> fx]

RECURSIVE ParseValue(_, _, _)
RECURSIVE ParseMembers(_, _, _, _, _, _)
RECURSIVE ParseElements(_, _, _, _, _, _)

\* relaxed = FALSE is the grammar of JSON.parse; relaxed = TRUE that of a
\* JavaScript expression over these lexemes: identifiers and the exit call
\* as values, numbers and identifiers as keys, shorthand members, a comma
\* before a closing brace or bracket.  (Array holes are not modelled: no
\* text of the model has one.)

\* The position after the key of a member that starts at i, 0 when no key
\* starts there.
KeyEnd(t, i, relaxed) ==
    IF IsString(t[i]) THEN i + 1
    ELSE IF relaxed /\ IsDigit(t[i]) THEN NumberEnd(t, i)
    ELSE IF relaxed /\ (IsIdentStart(t[i]) \/ t[i] = "null") THEN IdentEnd(t, i)
    ELSE 0

\* The name of the member: a number or an identifier names the string of
\* its characters.
KeyOf(t, i, keyEnd) ==
    IF IsString(t[i]) THEN t[i] ELSE Quoted(Concat(SubSeq(t, i, keyEnd - 1)))

\* What follows a member whose value has been read, s the next position
\* that is no white space.
MemberEnd(t, s, relaxed, acc, fx) ==
    IF s > Len(t) THEN Fail
    ELSE IF t[s] = "}" THEN Ok(s + 1, ObjectValue(acc), fx)
    ELSE IF t[s] = "," THEN ParseMembers(t, s + 1, relaxed, FALSE, acc, fx)
    ELSE Fail

AfterMember(t, key, m, relaxed, acc, fx) ==
    IF m.next = 0 THEN Fail
    ELSE MemberEnd(t, Skip(t, m.next), relaxed, Put(acc, key, m.val), fx \o m.fx)

\* The value of a member: the value after the colon at c, or, in an
\* expression, the value of the identifier itself (a shorthand member).
MemberValue(t, i, keyEnd, c, relaxed) ==
    IF c <= Len(t) /\ t[c] = ":" THEN ParseValue(t, c + 1, relaxed)
    ELSE IF relaxed /\ IsIdentStart(t[i]) /\ keyEnd = i + 1
    THEN Ok(keyEnd, GlobalValue(t[i]), <<>>)
    ELSE IF relaxed /\ (IsIdentStart(t[i]) \/ (t[i] = "null" /\ keyEnd > i + 1))
    THEN Ok(keyEnd, Undefined, <<"throw">>)
    ELSE Fail

MemberFrom(t, i, keyEnd, relaxed, acc, fx) ==
    IF keyEnd = 0 THEN Fail
    ELSE AfterMember(t, KeyOf(t, i, keyEnd),
                     MemberValue(t, i, keyEnd, Skip(t, keyEnd), relaxed),
                     relaxed, acc, fx)

MembersAt(t, i, relaxed, first, acc, fx) ==
    IF i > Len(t) THEN Fail
    ELSE IF t[i] = "}"
    THEN (IF first \/ relaxed THEN Ok(i + 1, ObjectValue(acc), fx) ELSE Fail)
    ELSE MemberFrom(t, i, KeyEnd(t, i, relaxed), relaxed, acc, fx)

ParseMembers(t, i0, relaxed, first, acc, fx) ==
    MembersAt(t, Skip(t, i0), relaxed, first, acc, fx)

ElementEnd(t, s, relaxed, acc, fx) ==
    IF s > Len(t) THEN Fail
    ELSE IF t[s] = "]" THEN Ok(s + 1, ArrayValue(acc), fx)
    ELSE IF t[s] = "," THEN ParseElements(t, s + 1, relaxed, FALSE, acc, fx)
    ELSE Fail

AfterElement(t, m, relaxed, acc, fx) ==
    IF m.next = 0 THEN Fail
    ELSE ElementEnd(t, Skip(t, m.next), relaxed, Append(acc, m.val), fx \o m.fx)

ElementsAt(t, i, relaxed, first, acc, fx) ==
    IF i > Len(t) THEN Fail
    ELSE IF t[i] = "]"
    THEN (IF first \/ relaxed THEN Ok(i + 1, ArrayValue(acc), fx) ELSE Fail)
    ELSE AfterElement(t, ParseValue(t, i, relaxed), relaxed, acc, fx)

ParseElements(t, i0, relaxed, first, acc, fx) ==
    ElementsAt(t, Skip(t, i0), relaxed, first, acc, fx)

ValueAt(t, i, relaxed) ==
    IF i > Len(t) THEN Fail
    ELSE IF IsDigit(t[i])
    THEN Ok(NumberEnd(t, i), Num(SubSeq(t, i, NumberEnd(t, i) - 1)), <<>>)
    ELSE IF IsString(t[i]) THEN Ok(i + 1, Str(t[i]), <<>>)
    ELSE IF t[i] = "null"
    THEN (IF relaxed /\ IdentEnd(t, i) > i + 1
          THEN Ok(IdentEnd(t, i), Undefined, <<"throw">>)
          ELSE Ok(i + 1, Null, <<>>))
    ELSE IF relaxed /\ IsIdentStart(t[i])
    THEN (IF IdentEnd(t, i) = i + 1
          THEN Ok(i + 1, GlobalValue(t[i]), <<>>)
          ELSE Ok(IdentEnd(t, i), Undefined, <<"throw">>))
    ELSE IF relaxed /\ t[i] = ExitCall THEN Ok(i + 1, Undefined, <<"exit">>)
    ELSE IF t[i] = "{" THEN ParseMembers(t, i + 1, relaxed, TRUE, EmptyMembers, <<>>)
    ELSE IF t[i] = "[" THEN ParseElements(t, i + 1, relaxed, TRUE, <<>>, <<>>)
    ELSE Fail

ParseValue(t, i0, relaxed) == ValueAt(t, Skip(t, i0), relaxed)

\* tryParse(str): the value of JSON.parse, null when it throws
tryParse(str) ==
    LET r == ParseValue(str, 1, FALSE)
    IN IF r.next # 0 /\ Skip(str, r.next) = Len(str) + 1 THEN r.val ELSE Null

\* An expression: values separated by the comma operator; the value is the
\* last one.
RECURSIVE ParseExpression(_, _)
Sequenced(r, q) == IF q.next = 0 THEN Fail ELSE Ok(q.next, q.val, r.fx \o q.fx)

ExpressionEnd(t, r, s) ==
    IF r.next = 0 THEN Fail
    ELSE IF s = Len(t) + 1 THEN Ok(s, r.val, r.fx)
    ELSE IF t[s] = "," THEN Sequenced(r, ParseExpression(t, s + 1))
    ELSE Fail

ExpressionFrom(t, r) == ExpressionEnd(t, r, Skip(t, r.next))

ParseExpression(t, i) == ExpressionFrom(t, ParseValue(t, i, TRUE))

\* new Function('return (' + text + ')')(): it returns a value, it throws
\* (the text is no expression, or it refers to an unknown identifier), or
\* the call of process.exit ends the process.
Evaluate(text) ==
    LET r == ParseExpression(text, 1)
    IN IF r.next = 0 THEN [outcome |-> "throws", val |-> Undefined]
       ELSE IF r.fx = <<>> THEN [outcome |-> "value", val |-> r.val]
       ELSE IF Head(r.fx) = "exit" THEN [outcome |-> "exits", val |-> Undefined]
       ELSE [outcome |-> "throws", val |-> Undefined]

\* Fix 0: fixed.replace(/(\d)"(?=[^,}\]])/g, '$1\\"')
Fix0(t) ==
    [i \in 1..Len(t) |->
        IF i > 1 /\ IsDigit(t[i - 1]) /\ IsString(t[i]) THEN Escaped(t[i]) ELSE t[i]]

\* Fix 1: fixed.replace(/,(\s*[}\]])/g, '$1')
RECURSIVE Fix1(_)
Fix1(t) ==
    IF t = <<>> THEN <<>>
    ELSE IF t[1] = "," /\ Skip(t, 2) <= Len(t) /\ t[Skip(t, 2)] \in {"}", "]"}
    THEN Fix1(Tail(t))
    ELSE <<Head(t)>> \o Fix1(Tail(t))

\* A replacement of the shape  left \s+ (?= right)  or  left \s+ right: the
\* white space between a lexeme of the set left and one of the set right
\* becomes a comma and one space.
RECURSIVE CommaBetween(_, _, _)
CommaBetween(t, left, right) ==
    IF Len(t) < 3 THEN t
    ELSE IF /\ t[1] \in left /\ t[2] = Space
            /\ Skip(t, 2) <= Len(t) /\ t[Skip(t, 2)] \in right
    THEN <<t[1], ",", Space>> \o CommaBetween(SubSeq(t, Skip(t, 2), Len(t)), left, right)
    ELSE <<Head(t)>> \o CommaBetween(Tail(t), left, right)

\* Fix 2: fixed.replace(/"\s+(?=")/g, '", "')
Fix2(t) == CommaBetween(t, StringLexemes \cup {Escaped(s) : s \in StringLexemes},
                        StringLexemes)
\* Fix 3: fixed.replace(/}\s+{/g, '}, {')
Fix3(t) == CommaBetween(t, {"}"}, {"{"})
\* Fix 4: fixed.replace(/]\s+\[/g, '], [')
Fix4(t) == CommaBetween(t, {"]"}, {"["})
\* Fix 5: fixed.replace(/([0-9]|true|false|null)\s+(?=")/g, '$1, ')
Fix5(t) == CommaBetween(t, {"1", "2", "3", "null"}, StringLexemes)

\* Fix 6: fixed.replace(/,\s*,/g, ',')
RECURSIVE Fix6(_)
Fix6(t) ==
    IF Len(t) < 2 THEN t
    ELSE IF t[1] = "," /\ Skip(t, 2) <= Len(t) /\ t[Skip(t, 2)] = ","
    THEN <<",">> \o Fix6(SubSeq(t, Skip(t, 2) + 1, Len(t)))
    ELSE <<Head(t)>> \o Fix6(Tail(t))

\* Fix 0 .. Fix 6 in the order of the source (Fix 7 needs a single quote).
Repairs(t) == Fix6(Fix5(Fix4(Fix3(Fix2(Fix1(Fix0(t)))))))

\* fixed.includes(kw) for some keyword: a lexeme holds one
hasDanger(text) ==
    \E i \in 1..Len(text) : text[i] \in dangerousKeywords \/ text[i] = ExitCall

\* extractObject: the index of the { of the first "key" \s* : \s* { in
\* text, 0 if none
MatchStart(text, key) ==
    LET brace(i) == Skip(text, Skip(text, i + 1) + 1)
        hits == {i \in 1..Len(text) :
                    /\ text[i] = Quoted(key)
                    /\ Skip(text, i + 1) <= Len(text) /\ text[Skip(text, i + 1)] = ":"
                    /\ brace(i) <= Len(text) /\ text[brace(i)] = "{"}
    IN IF hits = {} THEN 0 ELSE brace(MinOf(hits))

\* extractObject: the loop that counts braces; the index of the closing
\* brace, 0 when the text ends first.
RECURSIVE BraceEnd(_, _, _)
BraceEnd(text, i, braceCount) ==
    IF i > Len(text) THEN 0
    ELSE LET n == braceCount + (IF text[i] = "{" THEN 1 ELSE 0)
                             - (IF text[i] = "}" THEN 1 ELSE 0)
         IN IF n = 0 THEN i ELSE BraceEnd(text, i + 1, n)

\* jsonBlock.replace(/,\s*$/, ''): a comma that only white space follows
\* goes, with that white space.
RECURSIVE DropLastComma(_, _)
DropLastComma(t, n) ==
    IF n = 0 THEN t
    ELSE IF t[n] = Space THEN DropLastComma(t, n - 1)
    ELSE IF t[n] = "," THEN SubSeq(t, 1, n - 1)
    ELSE t

\* extractObject: the block handed to the Function constructor (<<>> when
\* the key is not matched).
JsonBlock(text, key) ==
    LET startIndex == MatchStart(text, key)
        endIndex == BraceEnd(text, startIndex, 0)
        rest == SubSeq(text, startIndex, Len(text))
    IN IF startIndex = 0 THEN <<>>
       ELSE IF endIndex # 0 THEN SubSeq(text, startIndex, endIndex)
       ELSE DropLastComma(rest, Len(rest)) \o <<"}">>

\* extractObject(text, key): null when the key is not matched; else the
\* block is evaluated, and once more when that throws (the block holds no
\* backslash, so the second text is the first); null when both throw.
extractObject(text, key) ==
    LET jsonBlock == JsonBlock(text, key)
        result == Evaluate(jsonBlock)
    IN IF jsonBlock = <<>> THEN [outcome |-> "value", val |-> Null]
       ELSE IF result.outcome = "throws" THEN [outcome |-> "value", val |-> Null]
       ELSE result

\* getFlatField(text, key): the string after "key" \s* : \s*, else null
getFlatField(text, key) ==
    LET str(i) == Skip(text, Skip(text, i + 1) + 1)
        hits == {i \in 1..Len(text) :
                    /\ text[i] = Quoted(key)
                    /\ Skip(text, i + 1) <= Len(text) /\ text[Skip(text, i + 1)] = ":"
                    /\ str(i) <= Len(text) /\ IsString(text[str(i)])}
    IN IF hits = {} THEN Null ELSE Str(text[str(MinOf(hits))])

\* The blocks extractObject evaluates for the three keys; a call of
\* process.exit in one of them ends the process before the next.
RECURSIVE BlocksUntilExit(_, _)
BlocksUntilExit(text, k) ==
    IF k > 3 THEN {}
    ELSE LET block == JsonBlock(text, ExtractKeys[k])
         IN IF block = <<>> THEN BlocksUntilExit(text, k + 1)
            ELSE IF Evaluate(block).outcome = "exits" THEN {block}
            ELSE {block} \cup BlocksUntilExit(text, k + 1)

ExtractedBlocks(text) == BlocksUntilExit(text, 1)

\* Attempt 6: the reconstructed object, null when neither
\* employeeRemarkAnalysis nor sentimentSummary nor englishSummary was
\* recovered.
Reconstruction(cand, clean) ==
    LET ex == [k \in 1..3 |-> extractObject(cand, ExtractKeys[k])]
        reconstructed ==
            [key \in {Quoted(ExtractKeys[k]) : k \in 1..3} \cup {Quoted(f) : f \in FlatKeys} |->
                IF \E k \in 1..3 : key = Quoted(ExtractKeys[k])
                THEN ex[CHOOSE k \in 1..3 : key = Quoted(ExtractKeys[k])].val
                ELSE getFlatField(clean, CHOOSE f \in FlatKeys : key = Quoted(f))]
    IN IF \E k \in 1..3 : ex[k].outcome = "exits"
       THEN [outcome |-> "exits", val |-> Undefined]
       ELSE IF \/ Truthy(reconstructed[Quoted("employeeRemarkAnalysis")])
               \/ Truthy(reconstructed[Quoted("sentimentSummary")])
               \/ Truthy(reconstructed[Quoted("englishSummary")])
       THEN [outcome |-> "value", val |-> ObjectValue(reconstructed)]
       ELSE [outcome |-> "value", val |-> Null]

(***************************************************************************)
(* JSON.stringify, for the values it can serialise: NaN becomes null, as   *)
(* does an undefined element of an array; a member that is undefined is    *)
(* left out.                                                               *)
(***************************************************************************)
RECURSIVE Stringify(_)
RECURSIVE StringifyMembers(_, _)
RECURSIVE StringifyElements(_, _)

Stringify(v) ==
    CASE v[1] = "number" -> v[2]
      [] v[1] = "string" -> v[2]
      [] v[1] = "object" -> <<"{">> \o StringifyMembers(v[2], DOMAIN v[2]) \o <<"}">>
      [] v[1] = "array" -> <<"[">> \o StringifyElements(v[2], 1) \o <<"]">>
      [] OTHER -> <<"null">>

StringifyMembers(f, keys) ==
    LET shown == {k \in keys : f[k] # Undefined}
        key == CHOOSE k \in shown : TRUE
    IN IF shown = {} THEN <<>>
       ELSE <<key, ":">> \o Stringify(f[key])
            \o (IF shown = {key} THEN <<>>
                ELSE <<",">> \o StringifyMembers(f, shown \ {key}))

StringifyElements(items, i) ==
    IF i > Len(items) THEN <<>>
    ELSE Stringify(items[i])
         \o (IF i = Len(items) THEN <<>> ELSE <<",">> \o StringifyElements(items, i + 1))

(***************************************************************************)
(* cleanAndParseJSON as a function of its argument: the stage that ends    *)
(* the call and what it returns.  Stage "exited" is the end of the process *)
(* inside the call, which then does not return.                            *)
(***************************************************************************)
Returned(kind, val) == [kind |-> kind, value |-> val]

\* trimmed = candidate.substring(0, lastClose + 1), parsed when lastClose > 0
TrimmedParse(cand) ==
    LET lastClose == LastIndex(cand, {"}", "]"})
    IN IF lastClose > 1 THEN tryParse(SubSeq(cand, 1, lastClose)) ELSE Null

cleanAndParseJSON(text) ==
    LET clean == Clean(text)
        cand == Candidate(clean)
        repaired == Repairs(cand)
        relaxedParse == Evaluate(repaired)
        rec == Reconstruction(cand, clean)
    IN IF cand = <<>> THEN Returned("null", Null)
       ELSE IF Truthy(tryParse(cand)) THEN Returned("strict", tryParse(cand))
       ELSE IF Truthy(TrimmedParse(cand)) THEN Returned("trimmed", TrimmedParse(cand))
       ELSE IF Truthy(tryParse(repaired)) THEN Returned("repaired", tryParse(repaired))
       ELSE IF ~hasDanger(repaired) /\ relaxedParse.outcome = "value"
       THEN Returned("relaxed", relaxedParse.val)
       ELSE IF rec.outcome = "exits" THEN Returned("exited", Undefined)
       ELSE IF rec.val = Null THEN Returned("null", Null)
       ELSE Returned("reconstructed", rec.val)

(***************************************************************************)
(* SpecParser: cleanAndParseJSON on any short text and on the texts below, *)
(* one action per attempt of the source.  evaluated holds every text       *)
(* handed to new Function, attempted the stages tried so far, in order,    *)
(* each with its success.                                                  *)
(***************************************************************************)
\* {"a": 1, "b": [1 2 3]}
MissingCommasText ==
    <<"{", Quoted("a"), ":", Space, "1", ",", Space, Quoted("b"), ":", Space,
      "[", "1", Space, "2", Space, "3", "]", "}">>
\* {"employeeRemarkAnalysis":{"a":process.exit(1)}}
ExitText ==
    <<"{", Quoted("employeeRemarkAnalysis"), ":", "{", Quoted("a"), ":", ExitCall,
      "}", "}">>
\* {"a":NaN}
NaNText == <<"{", Quoted("a"), ":", "NaN", "}">>
\* {1:1},1
CommaExpressionText == <<"{", "1", ":", "1", "}", ",", "1">>
\* Texts that each of Fix 2 to Fix 5 repairs, a text with a flat field only,
\* and a well-formed text between fences.
ScenarioTexts ==
    { MissingCommasText, ExitText, NaNText, CommaExpressionText,
      <<"[", Quoted("a"), Space, Quoted("b"), "]">>,
      <<"[", "{", "}", Space, "{", "}", "]">>,
      <<"[", "[", "]", Space, "[", "]", "]">>,
      <<"{", Quoted("a"), ":", Space, "1", Space, Quoted("b"), ":", Space, "null", "}">>,
      <<"{", Quoted("sentimentSummary"), ":", Space, Quoted("a"), Space, "process">>,
      <<"<fence>json", Space, "{", Quoted("a"), ":", "[", "1", ",", "2", "]", "}", Space,
        "<fence>">> }

StageNames == <<"strict", "trimmed", "repaired", "relaxed", "reconstructed">>
Attempt(name, ok) == [stage |-> name, ok |-> ok]

\* Where the call goes on when an attempt has failed.
AfterFailureSkipsRelaxed(at) ==
    CASE at = "located" -> "repairing"
      [] at = "repairing" -> "reconstructing"
      [] at = "relaxed" -> "reconstructing"

AfterFailure(at) ==
    CASE at = "located" -> "repairing"
      [] at = "repairing" -> "relaxed"
      [] at = "relaxed" -> "reconstructing"

InitParser ==
    /\ \/ \E pre \in {<<>>, <<"<fence>json">>}, body \in SeqsUpTo(Lexemes, MaxParts) :
             content = pre \o body
       \/ content \in ScenarioTexts
    /\ ppc = "called"
    /\ candidate = <<>> /\ fixed = <<>> /\ evaluated = {} /\ attempted = <<>>
    /\ presult = Returned("none", Undefined)
    /\ services = FactoryInit.services /\ nextInst = FactoryInit.nextInst
    /\ envKeys = {}
    /\ IdleFactoryAux /\ IdlePipeline /\ IdleForensic /\ IdlePure

parserRest == <<content, factoryVars, pipelineVars, forensicVars, pureVars>>

\* Steps 1 and 2: strip the fences, find the first { or [; return null when
\* there is none.
Locate ==
    /\ ppc = "called"
    /\ candidate' = Candidate(Clean(content))
    /\ IF candidate' = <<>>
       THEN ppc' = "returned" /\ presult' = Returned("null", Null)
       ELSE ppc' = "located" /\ UNCHANGED presult
    /\ UNCHANGED <<fixed, evaluated, attempted, parserRest>>

\* Attempt 1 and attempt 1b: JSON.parse of the candidate, then of the
\* candidate cut after its last } or ].
StrictParse ==
    /\ ppc = "located"
    /\ LET lastClose == LastIndex(candidate, {"}", "]"})
           parsed == tryParse(candidate)
           parsedTrimmed == TrimmedParse(candidate)
       IN IF Truthy(parsed)
          THEN /\ ppc' = "returned" /\ presult' = Returned("strict", parsed)
               /\ attempted' = attempted \o <<Attempt("strict", TRUE)>>
          ELSE IF lastClose > 1
          THEN /\ attempted' = attempted \o <<Attempt("strict", FALSE),
                                             Attempt("trimmed", Truthy(parsedTrimmed))>>
               /\ IF Truthy(parsedTrimmed)
                  THEN ppc' = "returned" /\ presult' = Returned("trimmed", parsedTrimmed)
                  ELSE ppc' = AfterFailure(ppc) /\ UNCHANGED presult
          ELSE /\ attempted' = attempted \o <<Attempt("strict", FALSE)>>
               /\ ppc' = AfterFailure(ppc) /\ UNCHANGED presult
    /\ UNCHANGED <<candidate, fixed, evaluated, parserRest>>

\* Step 4: the repairs on the full candidate, and JSON.parse of the result.
Repair ==
    /\ ppc = "repairing"
    /\ fixed' = Repairs(candidate)
    /\ attempted' = attempted \o <<Attempt("repaired", Truthy(tryParse(fixed')))>>
    /\ IF Truthy(tryParse(fixed'))
       THEN ppc' = "returned" /\ presult' = Returned("repaired", tryParse(fixed'))
       ELSE ppc' = AfterFailure(ppc) /\ UNCHANGED presult
    /\ UNCHANGED <<candidate, evaluated, parserRest>>

\* Attempt 5: relaxed parsing with the Function constructor, unless the
\* repaired text holds a dangerous keyword.  What the function returns is
\* returned, whatever it is.
RelaxedParse ==
    /\ ppc = "relaxed"
    /\ IF hasDanger(fixed)
       THEN ppc' = AfterFailure(ppc) /\ UNCHANGED <<evaluated, attempted, presult>>
       ELSE /\ evaluated' = evaluated \cup {fixed}
            /\ attempted' =
                  attempted \o <<Attempt("relaxed", Evaluate(fixed).outcome = "value")>>
            /\ IF Evaluate(fixed).outcome = "value"
               THEN ppc' = "returned" /\ presult' = Returned("relaxed", Evaluate(fixed).val)
               ELSE ppc' = AfterFailure(ppc) /\ UNCHANGED presult
    /\ UNCHANGED <<candidate, fixed, parserRest>>

\* Attempt 6: reconstruction; extractObject evaluates the block of each of
\* the three keys found in the candidate, the flat fields are read from
\* clean.  A block that calls process.exit ends the process: the call does
\* not return.
Reconstruct ==
    /\ ppc = "reconstructing"
    /\ evaluated' = evaluated \cup ExtractedBlocks(candidate)
    /\ LET rec == Reconstruction(candidate, Clean(content))
       IN IF rec.outcome = "exits"
          THEN /\ ppc' = "exited" /\ presult' = Returned("exited", Undefined)
               /\ attempted' = attempted \o <<Attempt("reconstructed", FALSE)>>
          ELSE /\ ppc' = "returned"
               /\ attempted' = attempted \o <<Attempt("reconstructed", rec.val # Null)>>
               /\ presult' = IF rec.val # Null THEN Returned("reconstructed", rec.val)
                             ELSE Returned("null", Null)
    /\ UNCHANGED <<candidate, fixed, parserRest>>

NextParser == Locate \/ StrictParse \/ Repair \/ RelaxedParse \/ Reconstruct

SpecParser == InitParser /\ [][NextParser]_vars

\* C10: no text handed to the Function constructor holds a denylisted
\* token, be it the whole repaired candidate or a block extracted during
\* reconstruction.
C10_NoDenylistedTextEvaluated ==
    \A text \in evaluated : ~hasDanger(text)

StageRank(name) == CHOOSE i \in 1..5 : StageNames[i] = name

\* What a stage yields on the candidate of the call, computed apart from
\* the run.
StageValue(name) ==
    CASE name = "strict" -> tryParse(candidate)
      [] name = "trimmed" -> TrimmedParse(candidate)
      [] name = "repaired" -> tryParse(Repairs(candidate))
      [] name = "relaxed" -> Evaluate(Repairs(candidate)).val
      [] name = "reconstructed" -> Reconstruction(candidate, Clean(content)).val

StageSucceeds(name) ==
    CASE name = "relaxed" -> Evaluate(Repairs(candidate)).outcome = "value"
      [] name = "reconstructed" ->
            /\ Reconstruction(candidate, Clean(content)).outcome = "value"
            /\ StageValue(name) # Null
      [] OTHER -> Truthy(StageValue(name))

\* A stage that the call leaves out by design: the trimmed parse when no
\* closing brace or bracket follows the first lexeme, the relaxed
\* evaluation when the repaired text holds a dangerous keyword.
LeftOut(name) ==
    \/ name = "trimmed" /\ LastIndex(candidate, {"}", "]"}) <= 1
    \/ name = "relaxed" /\ hasDanger(Repairs(candidate))

\* C11: the stages are attempted in the order strict, trimmed, repaired,
\* relaxed, reconstructed, beginning with strict; a stage is attempted only
\* after every earlier stage has been attempted and has failed (or is left
\* out by design); and when the call returns, it returns the value of the
\* first stage that succeeded, null when none did.
C11_StagedRecoveryInOrder ==
    /\ \A i \in 1..Len(attempted) :
          /\ attempted[i].ok = StageSucceeds(attempted[i].stage)
          /\ i < Len(attempted) => ~attempted[i].ok
          /\ i > 1 => StageRank(attempted[i].stage) > StageRank(attempted[i - 1].stage)
          /\ \A r \in 1..(StageRank(attempted[i].stage) - 1) :
                \/ \E j \in 1..(i - 1) : attempted[j].stage = StageNames[r]
                \/ LeftOut(StageNames[r])
    /\ ppc = "returned" =>
          IF attempted = <<>>
          THEN candidate = <<>> /\ presult = Returned("null", Null)
          ELSE LET last == attempted[Len(attempted)]
               IN IF last.ok
                  THEN presult = Returned(last.stage, StageValue(last.stage))
                  ELSE last.stage = "reconstructed" /\ presult = Returned("null", Null)

\* All five stages were attempted, the first four failed, and the call
\* returned the reconstructed object.
C11_Witness ==
    /\ ppc = "returned" /\ Len(attempted) = 5
    /\ presult.kind = "reconstructed"
    /\ \A i \in 1..4 : ~attempted[i].ok

\* C12: every call of cleanAndParseJSON ends, and it ends by returning a
\* structured value or null; it is never ended by an error, nor by
\* anything else that the content of the text does.
C12_AlwaysReturnsValueOrNull ==
    ppc \notin {"idle", "called", "located", "repairing", "relaxed", "reconstructing"}
        => /\ ppc = "returned"
           /\ presult.kind \in {"null"} \cup Range(StageNames)

\* The values JSON.stringify serialises: no object of the runtime and no
\* undefined in them, every key a string of the texts.
RECURSIVE Representable(_)
Representable(v) ==
    CASE v[1] = "object" ->
            \A k \in DOMAIN v[2] : IsString(k) /\ Representable(v[2][k])
      [] v[1] = "array" -> \A i \in 1..Len(v[2]) : Representable(v[2][i])
      [] OTHER -> v[1] \in {"number", "string", "null", "NaN"}

\* C13: when cleanAndParseJSON has recovered a value, the JSON text of that
\* value, passed through cleanAndParseJSON again, yields an equal value.
C13_RoundTripStable ==
    (/\ ppc = "returned"
     /\ presult.kind \in Range(StageNames)
     /\ Representable(presult.value))
        => cleanAndParseJSON(Stringify(presult.value)).value = presult.value

\* {"a":1,"b":[1,2,3]}
RepairedStructure ==
    ObjectValue(Put(Put(EmptyMembers, Quoted("a"), Num(<<"1">>)), Quoted("b"),
                    ArrayValue(<<Num(<<"1">>), Num(<<"2">>), Num(<<"3">>)>>)))

\* C14: for the text {"a": 1, "b": [1 2 3]} cleanAndParseJSON returns the
\* structure {"a":1,"b":[1,2,3]}.
C14_MissingCommasRepaired ==
    (content = MissingCommasText /\ ppc = "returned")
        => presult.value = RepairedStructure

(***************************************************************************)
(* extractSection.  A response is a sequence of lexemes: the markers ##,   *)
(* ** and [, the closing ], one space, section names and a word.           *)
(***************************************************************************)
MaxTokens == 5

Openers == {"##", "**", "["}
Closers == {"]", "**"}
\* The names that begin with PART_, and those that analyzeAnomalies asks for.
PartNames == {"PART_EMPLOYEE", "PART_ZONE"}
AnomalyNames == {"PATTERNS:", "ROOT CAUSE:"}
SectionLexemes == Openers \cup Closers \cup {Space, "x"} \cup PartNames \cup AnomalyNames
\* The section names the callers pass.
SectionNames ==
    {<<"[", "PART_EMPLOYEE", "]">>, <<"[", "PART_ZONE", "]">>,
     <<"PATTERNS:">>, <<"ROOT CAUSE:">>}

\* sectionName.replace(/[\[\]]/g, ''): the callers' names hold one lexeme
\* besides the brackets
cleanName(sectionName) ==
    Head(SelectSeq(sectionName, LAMBDA tok : tok \notin {"[", "]"}))

\* (?:##|\*\*|\[)\s*NAME at position i: the position after NAME, else 0
LabelAt(t, i, names) ==
    IF i <= Len(t) /\ t[i] \in Openers /\ Skip(t, i + 1) <= Len(t)
          /\ t[Skip(t, i + 1)] \in names
    THEN Skip(t, i + 1) + 1
    ELSE 0

\* The lookahead (?=\s*(?:##|\*\*|\[)\s*PART_|$) at position e
Lookahead(t, e) == e = Len(t) + 1 \/ LabelAt(t, Skip(t, e), PartNames) # 0

\* The lazy group ([\s\S]*?): the first position from c on where the
\* lookahead holds
RECURSIVE ContentEnd(_, _)
ContentEnd(t, c) == IF Lookahead(t, c) THEN c ELSE ContentEnd(t, c + 1)

\* Where the content begins for the label matched at i: after the optional
\* closing ] or ** and the white space.
ContentStart(t, afterName) ==
    IF afterName <= Len(t) /\ t[afterName] \in Closers
    THEN Skip(t, afterName + 1)
    ELSE Skip(t, afterName)

\* response.match(regex): the first position where the label matches
extractSection(response, sectionName) ==
    LET hits == {i \in 1..Len(response) :
                    LabelAt(response, i, {cleanName(sectionName)}) # 0}
        c == ContentStart(response,
                          LabelAt(response, MinOf(hits), {cleanName(sectionName)}))
    IN IF hits = {} THEN <<>>
       ELSE Trim(SubSeq(response, c, ContentEnd(response, c) - 1))

(***************************************************************************)
(* SpecSection: one call of extractSection on any short response.          *)
(***************************************************************************)
InitSection ==
    /\ \E response \in SeqsUpTo(SectionLexemes, MaxTokens), sectionName \in SectionNames :
          arg = <<response, sectionName>>
    /\ out = <<>> /\ upc = "called"
    /\ services = FactoryInit.services /\ nextInst = FactoryInit.nextInst
    /\ envKeys = {}
    /\ IdleFactoryAux /\ IdlePipeline /\ IdleForensic /\ IdleParser

ExtractSection ==
    /\ upc = "called"
    /\ out' = extractSection(arg[1], arg[2])
    /\ upc' = "returned"
    /\ UNCHANGED <<arg, factoryVars, pipelineVars, forensicVars, parserVars>>

NextSection == ExtractSection

SpecSection == InitSection /\ [][NextSection]_vars

\* A label of the section named name stands at position i of t.
IsLabel(t, i, name) == LabelAt(t, i, {name}) # 0

\* C15: extractSection returns the empty string when the label asked for
\* is not in the response, and what it returns for a label that is there
\* holds no label of another section.
C15_SectionHoldsNoOtherLabel ==
    upc = "returned" =>
        /\ (\A i \in 1..Len(arg[1]) : arg[1][i] # cleanName(arg[2])) => out = <<>>
        /\ \A i \in 1..Len(out), name \in (PartNames \cup AnomalyNames) \ {cleanName(arg[2])} :
              ~IsLabel(out, i, name)

(***************************************************************************)
(* SpecProgress: analyzeProjectData with a progress sink that may raise.   *)
(* Every provider call succeeds and a JDA hierarchy is present, so a       *)
(* working sink leads to the insights in one run; arg says at which        *)
(* reports updateProgress raises and how many JDA batches there are.       *)
(***************************************************************************)
Reports == {"init", "batch", "final"} \cup Range(StageOrder)

\* logProgress: the error of updateProgress is not caught
SinkRaises(report) == report \in arg.raisesAt

StageAfter(st) ==
    IF st = "jda" THEN "final"
    ELSE IF st = "forensic" THEN "jda"
    ELSE NextSimpleStage(st)

progressRest ==
    <<workflowSteps, provider, apiKey, hasAI, engine, aiService, inflight, timer,
      statistics, targetTickets, processedCount, forensicReports, attempts, succeeded,
      ticketsToAnalyze, jdaI, cooldowns, failures, swallowed, stored, returned,
      arg, out, upc, factoryVars, forensicVars, parserVars>>

InitProgress ==
    /\ arg \in [raisesAt : SUBSET Reports, batches : 0..1]
    /\ out = <<>> /\ upc = "idle"
    /\ provider \in {"ollama", "openai"}
    /\ pc = "called" /\ stage = "init" /\ run = 0 /\ progress = 0
    /\ stageLog = <<>> /\ outcome = "none"
    /\ workflowSteps = <<>> /\ apiKey = NoKey /\ hasAI = TRUE /\ engine = "mathUtils"
    /\ aiService = NoInst /\ inflight = {} /\ timer = "none"
    /\ statistics = NotComputed
    /\ targetTickets = <<>> /\ processedCount = 0 /\ forensicReports = EmptyReports
    /\ attempts = NoAttempts /\ succeeded = {}
    /\ ticketsToAnalyze = <<>> /\ jdaI = 0 /\ cooldowns = 0
    /\ failures = NoFailures /\ swallowed = NoFailures
    /\ stored = {} /\ returned = NoProject
    /\ services = FactoryInit.services /\ nextInst = FactoryInit.nextInst
    /\ envKeys = {}
    /\ IdleFactoryAux /\ IdleForensic /\ IdleParser

\* The catch around performAnalysis, for an error raised in it: the second
\* run on ollama, or the rejection of analyzeProjectData.
SinkErrorCaught ==
    IF CanFallback(provider, run)
    THEN /\ run' = 2 /\ stage' = "anomaly" /\ stageLog' = <<>>
         /\ UNCHANGED <<pc, outcome, progress>>
    ELSE /\ pc' = "done" /\ outcome' = "threw"
         /\ UNCHANGED <<run, stage, stageLog, progress>>

\* this.logProgress('Initializing AI', 10, ...) and getService, before the
\* try: an error leaves analyzeProjectData at once.
ReportInitializing ==
    /\ pc = "called"
    /\ IF SinkRaises("init")
       THEN /\ pc' = "done" /\ outcome' = "threw"
            /\ UNCHANGED <<run, stage, stageLog, progress>>
       ELSE /\ pc' = "running" /\ run' = 1 /\ stage' = "anomaly" /\ progress' = 10
            /\ UNCHANGED <<stageLog, outcome>>
    /\ UNCHANGED progressRest

\* One sub-analysis of performAnalysis: its report, then its provider calls
\* (analyzeJDARemarks reports once more for its batch).
RunSubAnalysis ==
    /\ pc = "running" /\ stage \in Range(StageOrder)
    /\ IF SinkRaises(stage) \/ (stage = "jda" /\ arg.batches > 0 /\ SinkRaises("batch"))
       THEN SinkErrorCaught
       ELSE /\ progress' = IF stage = "jda" /\ arg.batches > 0
                           THEN JdaProgress(0, arg.batches)
                           ELSE StageProgress(stage)
            /\ stageLog' = Append(stageLog, stage)
            /\ stage' = StageAfter(stage)
            /\ UNCHANGED <<pc, run, outcome>>
    /\ UNCHANGED progressRest

\* this.logProgress('Finalizing', 100, ...) and the return of the insights.
ReportFinalizing ==
    /\ pc = "running" /\ stage = "final"
    /\ IF SinkRaises("final")
       THEN SinkErrorCaught
       ELSE /\ progress' = 100 /\ pc' = "done" /\ outcome' = "insights"
            /\ UNCHANGED <<run, stage, stageLog>>
    /\ UNCHANGED progressRest

NextProgress == ReportInitializing \/ RunSubAnalysis \/ ReportFinalizing

SpecProgress == InitProgress /\ [][NextProgress]_vars

\* C16: whatever the reports at which the sink raises, analyzeProjectData
\* ends as it does with a working sink: with the insights, after one run in
\* which every sub-analysis ran, and with no error.
C16_SinkFailureChangesNothing ==
    pc = "done" => outcome = "insights" /\ run = 1 /\ stageLog = StageOrder

(***************************************************************************)
(* The scalar summaries of analyzeWorkflowData and the z-score.  Days are  *)
(* whole numbers; a mean, a standard deviation and a rate are kept as the  *)
(* whole number of hundredths (tenths for the rate) that toFixed leaves.   *)
(* A quotient is kept as its numerator and denominator: a denominator of 0 *)
(* is a division by zero, whose value in JavaScript is NaN or an infinity. *)
(***************************************************************************)
MaxRows == 3
MaxDays == 2

\* values.reduce((sum, v) => sum + v, 0), added up by halves
RECURSIVE Sum(_)
Sum(values) ==
    IF values = <<>> THEN 0
    ELSE IF Len(values) = 1 THEN values[1]
    ELSE Sum(SubSeq(values, 1, Len(values) \div 2))
            + Sum(SubSeq(values, Len(values) \div 2 + 1, Len(values)))

Abs(x) == IF x < 0 THEN -x ELSE x

\* A number that need not be finite.
Finite(n) == <<"finite", n>>
Infinity == <<"Infinity", 0>>
NegativeInfinity == <<"-Infinity", 0>>
NotANumber == <<"NaN", 0>>

\* Math.max(...values) and Math.min(...values); of no values they are the
\* infinities
MathMax(values) ==
    IF values = <<>> THEN NegativeInfinity
    ELSE Finite(CHOOSE m \in Range(values) : \A v \in Range(values) : v <= m)

MathMin(values) ==
    IF values = <<>> THEN Infinity
    ELSE Finite(CHOOSE m \in Range(values) : \A v \in Range(values) : m <= v)

\* (a / b) rounded to the nearest whole number, for a >= 0 and b > 0
Rounded(a, b) == (2 * a + b) \div (2 * b)

\* parseFloat(mean(values).toFixed(2)), in hundredths
mean(values) ==
    IF Len(values) = 0 THEN 0 ELSE Rounded(100 * Sum(values), Len(values))

\* parseFloat(standardDeviation(values).toFixed(2)), in hundredths: the
\* whole number nearest to 100 * sqrt(sum((v - avg)^2) / n), with avg the
\* exact mean sum / n; sum((v - avg)^2) / n is q / n^2 for
\* q = n * sum(v^2) - sum(v)^2, and no deviation is above half the range
standardDeviation(values) ==
    LET n == Len(values)
        q == n * Sum([i \in 1..n |-> values[i] * values[i]]) - Sum(values) * Sum(values)
    IN IF n = 0 THEN 0
       ELSE CHOOSE r \in 0..(50 * MaxDays) :
               /\ r = 0 \/ (2 * r - 1) * (2 * r - 1) * n * n <= 40000 * q
               /\ 40000 * q < (2 * r + 1) * (2 * r + 1) * n * n

Quotient(num, den) == [num |-> num, den |-> den]
Zero == Quotient(0, 1)

zScoreUnguarded(value, avg, stdDev) == Quotient(value - avg, stdDev)

\* if (stdDev === 0) return 0; return (value - avg) / stdDev
zScore(value, avg, stdDev) ==
    IF stdDev = 0 THEN Zero ELSE Quotient(value - avg, stdDev)

\* Math.abs(z) > 3; of 0 / 0, which is NaN, it is false
AbsExceeds(z, k) ==
    IF z.den = 0 THEN z.num # 0 ELSE Abs(z.num) > k * Abs(z.den)

\* The rows of the statistics: ticket, days rested, delivery date ("" when
\* there is none).
StatRows == [ticketId : 1..2, totalDaysRested : 0..MaxDays, deliveredOn : {"", "d"}]

\* analyzeWorkflowData, lines 176-208 of mathUtils and 32-55 of
\* csvAnalyzer: the scalar summaries, and the z-score of every row.
ScalarSummaries(steps, eng) ==
    LET daysRested == [i \in 1..Len(steps) |-> steps[i].totalDaysRested]
        uniqueTickets == {steps[i].ticketId : i \in 1..Len(steps)}
        avgDaysRested == mean(daysRested)
        stdDaysRested == standardDeviation(daysRested)
        delivered == SelectSeq(steps, LAMBDA s : s.deliveredOn # "")
        completedTickets ==
            IF eng = "mathUtils"
            THEN Cardinality({delivered[i].ticketId : i \in 1..Len(delivered)})
            ELSE Len(delivered)
        z == [i \in 1..Len(steps) |->
                zScore(100 * daysRested[i], avgDaysRested, stdDaysRested)]
    IN [totalWorkflowSteps |-> Len(steps),
        totalTickets |-> Cardinality(uniqueTickets),
        avgDaysRested |-> avgDaysRested,
        maxDaysRested |-> MathMax(daysRested),
        minDaysRested |-> MathMin(daysRested),
        stdDaysRested |-> stdDaysRested,
        completedTickets |-> completedTickets,
        completionRate |->
            IF eng = "mathUtils"
            THEN (IF uniqueTickets # {}
                  THEN Finite(Rounded(1000 * completedTickets, Cardinality(uniqueTickets)))
                  ELSE Finite(0))
            ELSE (IF Len(steps) = 0 THEN NotANumber
                  ELSE Finite(Rounded(1000 * completedTickets, Len(steps)))),
        zScores |-> z,
        anomalyCount |-> Cardinality({i \in 1..Len(steps) : AbsExceeds(z[i], 3)})]

(***************************************************************************)
(* SpecStatistics: one call of analyzeWorkflowData on any short list of    *)
(* rows, by either engine, or one z-score of any small value, mean and     *)
(* standard deviation.                                                     *)
(***************************************************************************)
InitStatistics ==
    /\ \/ \E steps \in SeqsUpTo(StatRows, MaxRows), eng \in {"mathUtils", "csvAnalyzer"} :
             arg = <<"analyzeWorkflowData", steps, eng>>
       \/ \E value \in 0..MaxDays, avg \in 0..MaxDays, stdDev \in 0..MaxDays :
             arg = <<"zScore", value, avg, stdDev>>
    /\ out = <<>> /\ upc = "called"
    /\ services = FactoryInit.services /\ nextInst = FactoryInit.nextInst
    /\ envKeys = {}
    /\ IdleFactoryAux /\ IdlePipeline /\ IdleForensic /\ IdleParser

statisticsRest == <<arg, factoryVars, pipelineVars, forensicVars, parserVars>>

AnalyzeWorkflowData ==
    /\ upc = "called" /\ arg[1] = "analyzeWorkflowData"
    /\ out' = ScalarSummaries(arg[2], arg[3])
    /\ upc' = "returned"
    /\ UNCHANGED statisticsRest

\* detectAnomaly's and analyzeWorkflowData's z-score of one value
ComputeZScore ==
    /\ upc = "called" /\ arg[1] = "zScore"
    /\ out' = zScore(arg[2], arg[3], arg[4])
    /\ upc' = "returned"
    /\ UNCHANGED statisticsRest

NextStatistics == AnalyzeWorkflowData \/ ComputeZScore

SpecStatistics == InitStatistics /\ [][NextStatistics]_vars

\* C17: analyzeWorkflowData of no rows returns 0 for every scalar summary:
\* the counts, the mean, the minimum, the maximum, the standard deviation,
\* the completion rate and the anomaly count.
C17_EmptyInputGivesZeroes ==
    (upc = "returned" /\ arg[1] = "analyzeWorkflowData" /\ arg[2] = <<>>)
        => /\ out.totalWorkflowSteps = 0 /\ out.totalTickets = 0
           /\ out.completedTickets = 0 /\ out.avgDaysRested = 0
           /\ out.minDaysRested = Finite(0) /\ out.maxDaysRested = Finite(0)
           /\ out.stdDaysRested = 0 /\ out.completionRate = Finite(0)
           /\ out.anomalyCount = 0

MaxValues == 4
MaxMagnitude == 2

Trends == {"INCREASING", "DECREASING", "STABLE"}

\* values.slice(0, Math.floor(values.length / 2)) and the rest
firstHalf(values) == SubSeq(values, 1, Len(values) \div 2)
secondHalf(values) == SubSeq(values, Len(values) \div 2 + 1, Len(values))

\* calculateMean(values), as the sum over the count
calculateMean(values) ==
    IF Len(values) = 0 THEN Quotient(0, 1) ELSE Quotient(Sum(values), Len(values))

\* ((secondAvg - firstAvg) / firstAvg) * 100
Change(firstAvg, secondAvg) ==
    Quotient(100 * (secondAvg.num * firstAvg.den - firstAvg.num * secondAvg.den),
             firstAvg.num * secondAvg.den)

\* q > k and q < k for a quotient with a denominator other than 0
Above(q, k) == IF q.den > 0 THEN q.num > k * q.den ELSE q.num < k * q.den
Below(q, k) == IF q.den > 0 THEN q.num < k * q.den ELSE q.num > k * q.den

calculateTrend(values) ==
    LET firstAvg == calculateMean(firstHalf(values))
        secondAvg == calculateMean(secondHalf(values))
        change == Change(firstAvg, secondAvg)
    IN IF Len(values) < 2 THEN "STABLE"
       ELSE IF firstAvg.num = 0 THEN "STABLE"
       ELSE IF Above(change, 5) THEN "INCREASING"
       ELSE IF Below(change, -5) THEN "DECREASING"
       ELSE "STABLE"

\* The sequence with the same first value and every delta of the opposite
\* sign and the same size.
OppositeDeltas(values) == [i \in 1..Len(values) |-> 2 * values[1] - values[i]]

(***************************************************************************)
(* SpecTrend: calculateTrend on any short sequence, and then on the        *)
(* sequence of opposite deltas.                                            *)
(***************************************************************************)
InitTrend ==
    /\ arg \in SeqsUpTo((-MaxMagnitude)..MaxMagnitude, MaxValues)
    /\ out = <<>> /\ upc = "called"
    /\ services = FactoryInit.services /\ nextInst = FactoryInit.nextInst
    /\ envKeys = {}
    /\ IdleFactoryAux /\ IdlePipeline /\ IdleForensic /\ IdleParser

trendRest == <<arg, factoryVars, pipelineVars, forensicVars, parserVars>>

CalculateTrend ==
    /\ upc = "called"
    /\ out' = <<calculateTrend(arg)>>
    /\ upc' = "calculated"
    /\ UNCHANGED trendRest

CalculateOpposite ==
    /\ upc = "calculated"
    /\ out' = Append(out, calculateTrend(OppositeDeltas(arg)))
    /\ upc' = "returned"
    /\ UNCHANGED trendRest

NextTrend == CalculateTrend \/ CalculateOpposite

SpecTrend == InitTrend /\ [][NextTrend]_vars

\* C19: for a sequence that is not empty calculateTrend returns one of the
\* three trends, and the sequence with the opposite deltas has the
\* opposite trend: DECREASING for INCREASING, INCREASING for DECREASING.
C19_OppositeDeltasOppositeTrend ==
    (upc = "returned" /\ arg # <<>>)
        => /\ out[1] \in Trends
           /\ out[1] = "INCREASING" => out[2] = "DECREASING"
           /\ out[1] = "DECREASING" => out[2] = "INCREASING"

\* The second-half mean minus the first-half mean, and 5% of the size of
\* the first-half mean, both times 100 and times the two counts.
MeanDifference(values) ==
    100 * (Sum(secondHalf(values)) * Len(firstHalf(values))
               - Sum(firstHalf(values)) * Len(secondHalf(values)))

FivePercent(values) == 5 * Abs(Sum(firstHalf(values))) * Len(secondHalf(values))

\* C20: the trend is INCREASING exactly when the second-half mean exceeds
\* the first-half mean by more than 5% of the first-half mean, DECREASING
\* exactly when it is lower by more than 5% of it, and STABLE otherwise, as
\* it is whenever the first-half mean is 0 or there are fewer than 2 values.
C20_TrendByFivePercentOfFirstMean ==
    upc # "called" =>
        LET decided == Len(arg) >= 2 /\ Sum(firstHalf(arg)) # 0
        IN /\ out[1] = "INCREASING"
                <=> (decided /\ MeanDifference(arg) > FivePercent(arg))
           /\ out[1] = "DECREASING"
                <=> (decided /\ -MeanDifference(arg) > FivePercent(arg))
           /\ out[1] \in Trends

(***************************************************************************)
(* mathUtils.analyzeWorkflowData: the risk ranking.  A z-score is kept as  *)
(* a quotient of hundredths, its two-decimal rounding and the risk score   *)
(* as whole numbers.  csvAnalyzer.ts holds another analyzeWorkflowData     *)
(* with other thresholds; the ranking modelled here is mathUtils'.         *)
(***************************************************************************)
MaxRuns == 2
MaxTotal == 120
RISK_CAP == 15

\* The rows of a call are drawn as runs: a row and the number of
\* consecutive copies of it.  The lengths make lists of more than 5, more
\* than 26 and more than 101 rows, which z-scores above 1.5, 5 and 10 need.
RunLengths == {1, 6, 30, 110}

Copies(r, firstId) ==
    [i \in 1..r.n |->
        [ticketId |-> firstId + i - 1,
         lifetimeRemarksFrom |-> r.lifetimeRemarksFrom,
         lifetimeRemarks |-> r.lifetimeRemarks,
         totalDaysRested |-> r.totalDaysRested]]

RECURSIVE Expand(_, _)
Expand(runs, firstId) ==
    IF runs = <<>> THEN <<>>
    ELSE Copies(Head(runs), firstId) \o Expand(Tail(runs), firstId + Head(runs).n)

TotalRows(runs) == Sum([i \in 1..Len(runs) |-> runs[i].n])

\* String.toUpperCase on the actor names of the model
toUpperCase(name) ==
    CASE name = "Citizen" -> "CITIZEN"
      [] name = "applicant" -> "APPLICANT"
      [] name = "Admin" -> "ADMIN"
      [] name = "Administrator" -> "ADMINISTRATOR"
      [] name = "clerk" -> "CLERK"
      [] name = "Unknown" -> "UNKNOWN"
      [] OTHER -> name

\* String.includes: every actor name of the model is one word
NameIncludes(name, word) == name = word

\* role.includes('APPLICANT') || role.includes('CITIZEN')
IsApplicant(step) ==
    LET role == toUpperCase(step.lifetimeRemarksFrom)
    IN NameIncludes(role, "APPLICANT") \/ NameIncludes(role, "CITIZEN")

Max(a, b) == IF a > b THEN a ELSE b

\* parseFloat(z.toFixed(2)), in hundredths
TwoDecimals(z) ==
    IF z.num < 0 THEN 0 - Rounded(100 * Abs(z.num), z.den)
    ELSE Rounded(100 * z.num, z.den)

CategoryInverted(z) ==
    IF AbsExceeds(z, 10) THEN "Medium" ELSE IF AbsExceeds(z, 5) THEN "High" ELSE "Critical"

\* Math.abs(z) > 10 ? 'Critical' : Math.abs(z) > 5 ? 'High' : 'Medium'
Category(z) ==
    IF AbsExceeds(z, 10) THEN "Critical" ELSE IF AbsExceeds(z, 5) THEN "High" ELSE "Medium"

\* The element the map of line 279 makes of one row.
RiskEntry(step, avgDaysRested, stdDaysRested) ==
    LET z == zScore(100 * step.totalDaysRested, avgDaysRested, stdDaysRested)
        isApplicant == IsApplicant(step)
    IN [id |-> step.ticketId,
        risk |-> Min(100, Max(0, Rounded(10 * Abs(z.num), z.den)
                                    + (IF isApplicant THEN 20 ELSE 0))),
        category |-> Category(z),
        delay |-> step.totalDaysRested,
        zScore |-> TwoDecimals(z),
        isApplicantAction |-> isApplicant]

\* The comparator without the priority of applicant rows.
RiskCompareByScore(a, b) == b.zScore - a.zScore

\* The comparator of the sort of line 304.
RiskCompare(a, b) ==
    IF a.isApplicantAction /\ ~b.isApplicantAction THEN 0 - 1
    ELSE IF ~a.isApplicantAction /\ b.isApplicantAction THEN 1
    ELSE b.zScore - a.zScore

\* Array.prototype.sort is stable.  Consecutive elements that compare equal
\* stay together in a stable sort, so the sort is made on the blocks of
\* such elements: a block goes after every block that does not compare
\* after it.
BlockStarts(apps) ==
    {i \in 1..Len(apps) : i = 1 \/ RiskCompare(apps[i - 1], apps[i]) # 0}

BlockFrom(apps, starts, s) ==
    SubSeq(apps, s, MinOf({t - 1 : t \in {u \in starts : u > s}} \cup {Len(apps)}))

BlocksOf(apps, starts) ==
    [k \in 1..Cardinality(starts) |->
        BlockFrom(apps, starts,
                  CHOOSE s \in starts : Cardinality({t \in starts : t <= s}) = k)]

InsertBlock(sorted, block) ==
    LET p == Cardinality({i \in 1..Len(sorted) : RiskCompare(sorted[i][1], block[1]) <= 0})
    IN SubSeq(sorted, 1, p) \o <<block>> \o SubSeq(sorted, p + 1, Len(sorted))

RECURSIVE SortBlocks(_)
SortBlocks(blocks) ==
    IF blocks = <<>> THEN <<>>
    ELSE InsertBlock(SortBlocks(SubSeq(blocks, 1, Len(blocks) - 1)), blocks[Len(blocks)])

RECURSIVE Flatten(_)
Flatten(blocks) ==
    IF blocks = <<>> THEN <<>> ELSE Head(blocks) \o Flatten(Tail(blocks))

SortRisk(apps) == Flatten(SortBlocks(BlocksOf(apps, BlockStarts(apps))))

\* array.slice(0, n)
Slice(array, n) == SubSeq(array, 1, Min(n, Len(array)))

\* The map, filter, sort and slice of lines 278-310.
RankedFrom(steps, avgDaysRested, stdDaysRested) ==
    [avgDaysRested |-> avgDaysRested,
     stdDaysRested |-> stdDaysRested,
     riskApplications |->
        Slice(SortRisk(SelectSeq([i \in 1..Len(steps) |->
                                     RiskEntry(steps[i], avgDaysRested, stdDaysRested)],
                                 LAMBDA app : Abs(app.zScore) > 150
                                                 \/ app.isApplicantAction)),
              RISK_CAP)]

DaysOf(steps) == [i \in 1..Len(steps) |-> steps[i].totalDaysRested]

riskApplications(steps) ==
    RankedFrom(steps, mean(DaysOf(steps)), standardDeviation(DaysOf(steps)))

(***************************************************************************)
(* SpecRisk: one call of analyzeWorkflowData on rows made of a few runs.   *)
(***************************************************************************)
RiskRuns == [lifetimeRemarksFrom : {"applicant", "clerk"}, lifetimeRemarks : {"x"},
             totalDaysRested : {0, 1, MaxDays}, n : RunLengths]

InitRisk ==
    /\ \E runs \in SeqsUpTo(RiskRuns, MaxRuns) :
          /\ TotalRows(runs) <= MaxTotal
          /\ arg = <<"riskApplications", Expand(runs, 1)>>
    /\ out = <<>> /\ upc = "called"
    /\ services = FactoryInit.services /\ nextInst = FactoryInit.nextInst
    /\ envKeys = {}
    /\ IdleFactoryAux /\ IdlePipeline /\ IdleForensic /\ IdleParser

RankApplications ==
    /\ upc = "called" /\ arg[1] = "riskApplications"
    /\ out' = riskApplications(arg[2])
    /\ upc' = "returned"
    /\ UNCHANGED statisticsRest

NextRisk == RankApplications

SpecRisk == InitRisk /\ [][NextRisk]_vars

CategoryRank(category) ==
    CASE category = "Medium" -> 1 [] category = "High" -> 2 [] category = "Critical" -> 3

\* The z-score of a ranked row, from its delay and the returned mean and
\* deviation.
ZOf(app) == zScore(100 * app.delay, out.avgDaysRested, out.stdDaysRested)

\* |z| of a is larger than |z| of b
AbsLarger(a, b) == Abs(a.num) * Abs(b.den) > Abs(b.num) * Abs(a.den)

\* C21: of any two rows of the risk ranking, the one with the larger |z|
\* never has the lower category, in the order Medium < High < Critical; a
\* row is Critical when |z| > 10, High when |z| > 5, Medium otherwise.
C21_CategoryMonotonicInZ ==
    (upc = "returned" /\ arg[1] = "riskApplications")
        => \A i, j \in 1..Len(out.riskApplications) :
              LET a == out.riskApplications[i]
                  b == out.riskApplications[j]
              IN /\ (AbsLarger(ZOf(a), ZOf(b)) \/ Abs(a.zScore) > Abs(b.zScore))
                    => CategoryRank(a.category) >= CategoryRank(b.category)
                 /\ a.category = "Critical" <=> AbsExceeds(ZOf(a), 10)
                 /\ a.category = "High"
                       <=> (AbsExceeds(ZOf(a), 5) /\ ~AbsExceeds(ZOf(a), 10))

\* A ranking that holds a Critical row and a Medium row.
C21_Witness ==
    /\ upc = "returned" /\ arg[1] = "riskApplications"
    /\ \E i, j \in 1..Len(out.riskApplications) :
          /\ out.riskApplications[i].category = "Critical"
          /\ out.riskApplications[j].category = "Medium"
          /\ Abs(out.riskApplications[i].zScore) > Abs(out.riskApplications[j].zScore)

\* The row of the call that a ranked element was made of.
StepOf(app) == arg[2][app.id]

\* a would be ranked before b: applicant rows first, then the higher z-score
RanksBefore(a, b) ==
    \/ a.isApplicantAction /\ ~b.isApplicantAction
    \/ a.isApplicantAction = b.isApplicantAction /\ a.zScore > b.zScore

\* The rows of the call that are left out of the ranking although their
\* |z| is above 1.5 or their actor is an applicant, as ranked elements.
LeftOutOfRanking ==
    LET ids == {out.riskApplications[i].id : i \in 1..Len(out.riskApplications)}
        all == {RiskEntry(arg[2][k], out.avgDaysRested, out.stdDaysRested) :
                   k \in 1..Len(arg[2])}
    IN {app \in all : app.id \notin ids
                        /\ (Abs(app.zScore) > 150 \/ IsApplicant(StepOf(app)))}

FLAG_CAP == 10

\* step.lifetimeRemarksFrom || 'Unknown'
EmployeeName(step) ==
    IF step.lifetimeRemarksFrom = "" THEN "Unknown" ELSE step.lifetimeRemarksFrom

\* String.trim on the remark texts of the model
TrimText(text) == IF text = " x" THEN "x" ELSE IF text = " " THEN "" ELSE text

excludedEmployees == {"APPLICANT", "CITIZEN", "SYSTEM", "UNKNOWN", "Admin", "Administrator"}

\* excludedEmployees.some(ex => normalizedName.includes(ex.toUpperCase()))
IsExcludedEmployee(step) ==
    \E ex \in excludedEmployees :
        NameIncludes(toUpperCase(EmployeeName(step)), toUpperCase(ex))

\* employeePerformance.get(name): the tasks and the total time, in days, of
\* the rows of an actor that is not excluded; absent for every other name
employeePerformance(steps, name) ==
    LET mine == SelectSeq(steps, LAMBDA step : EmployeeName(step) = name
                                                  /\ ~IsExcludedEmployee(step))
    IN [present |-> mine # <<>>, tasks |-> Len(mine), totalTime |-> Sum(DaysOf(mine))]

\* The rows counted into employeeRemarksMap (line 363).
IsProfiled(step) ==
    /\ TrimText(step.lifetimeRemarks) # ""
    /\ EmployeeName(step) # "Unknown"
    /\ EmployeeName(step) # "APPLICANT"

\* The keys of employeeRemarksMap, in the order of their first row.
FirstRow(steps, name) == MinOf({i \in 1..Len(steps) : EmployeeName(steps[i]) = name})

KeysInOrder(steps, names) ==
    [k \in 1..Cardinality(names) |->
        CHOOSE name \in names :
            Cardinality({m \in names : FirstRow(steps, m) <= FirstRow(steps, name)}) = k]

employeeRemarksMap(steps) ==
    KeysInOrder(SelectSeq(steps, IsProfiled),
                {EmployeeName(steps[i]) : i \in {j \in 1..Len(steps) : IsProfiled(steps[j])}})

\* remarksMap.get(text) of an actor
RemarkCount(steps, name, text) ==
    Cardinality({i \in 1..Len(steps) : /\ IsProfiled(steps[i])
                                       /\ EmployeeName(steps[i]) = name
                                       /\ TrimText(steps[i].lifetimeRemarks) = text})

RemarkTextsOf(steps, name) ==
    {TrimText(steps[i].lifetimeRemarks) :
        i \in {j \in 1..Len(steps) : IsProfiled(steps[j]) /\ EmployeeName(steps[j]) = name}}

\* topRemark.count: the first element of the counts sorted downwards
TopCount(steps, name) ==
    CHOOSE c \in {RemarkCount(steps, name, text) : text \in RemarkTextsOf(steps, name)} :
        \A text \in RemarkTextsOf(steps, name) : RemarkCount(steps, name, text) <= c

RedFlag(type, entity, severity) == [type |-> type, entity |-> entity, severity |-> severity]

\* repetitionRate > 0.6 && totalRemarks > 5; severity by repetitionRate > 0.8
RepeatedRemarkFlag(name, topCount, totalRemarks) ==
    IF 10 * topCount > 6 * totalRemarks /\ totalRemarks > 5
    THEN <<RedFlag("REPEATED_REMARK", name,
                   IF 10 * topCount > 8 * totalRemarks THEN "CRITICAL" ELSE "HIGH")>>
    ELSE <<>>

\* avgDelay = perf ? perf.totalTime / perf.tasks : 0;
\* delayOutlier = avgDelay > avgDaysRested + stdDaysRested;
\* delayOutlier && (perf?.tasks || 0) > 5; severity by avgDelay > 2 * avgDaysRested
UnusualDelayFlag(name, perf, avgDaysRested, stdDaysRested) ==
    IF /\ perf.present
       /\ 100 * perf.totalTime > (avgDaysRested + stdDaysRested) * perf.tasks
       /\ perf.tasks > 5
    THEN <<RedFlag("UNUSUAL_DELAY", name,
                   IF 100 * perf.totalTime > 2 * avgDaysRested * perf.tasks
                   THEN "CRITICAL" ELSE "HIGH")>>
    ELSE <<>>

\* The flags pushed for one key of employeeRemarksMap (lines 372-405).
FlagsOf(steps, name, avgDaysRested, stdDaysRested) ==
    RepeatedRemarkFlag(name, TopCount(steps, name),
                       Cardinality({i \in 1..Len(steps) :
                                       IsProfiled(steps[i]) /\ EmployeeName(steps[i]) = name}))
        \o UnusualDelayFlag(name, employeePerformance(steps, name),
                            avgDaysRested, stdDaysRested)

RECURSIVE AllFlags(_, _, _, _)
AllFlags(steps, keys, avgDaysRested, stdDaysRested) ==
    IF keys = <<>> THEN <<>>
    ELSE FlagsOf(steps, Head(keys), avgDaysRested, stdDaysRested)
            \o AllFlags(steps, Tail(keys), avgDaysRested, stdDaysRested)

\* behaviorMetrics.redFlags: redFlags.slice(0, 10)
behaviorMetrics(steps) ==
    [avgDaysRested |-> mean(DaysOf(steps)),
     stdDaysRested |-> standardDeviation(DaysOf(steps)),
     redFlags |-> Slice(AllFlags(steps, employeeRemarksMap(steps), mean(DaysOf(steps)),
                                 standardDeviation(DaysOf(steps))),
                        FLAG_CAP)]

(***************************************************************************)
(* SpecBehavior: one call of analyzeWorkflowData on rows made of a few     *)
(* runs, followed or not by the rows of two or of eleven employees who     *)
(* each wrote the same remark six times.                                   *)
(***************************************************************************)
BehaviorRuns == [lifetimeRemarksFrom : {"", "APPLICANT", "Admin", "clerk"},
                 lifetimeRemarks : {"", " x", "x", "y"},
                 totalDaysRested : {0, MaxDays}, n : {2, 6}]

CrowdNames == <<"E1", "E2", "E3", "E4", "E5", "E6", "E7", "E8", "E9", "E10", "E11">>

Crowd == [i \in 1..Len(CrowdNames) |->
             [lifetimeRemarksFrom |-> CrowdNames[i], lifetimeRemarks |-> "x",
              totalDaysRested |-> 0, n |-> 6]]

\* The whole crowd follows at most one run.
InitBehavior ==
    /\ \E runs \in SeqsUpTo(BehaviorRuns, MaxRuns),
          crowd \in {<<>>, SubSeq(Crowd, 1, 2), Crowd} :
          /\ TotalRows(runs \o crowd) <= MaxTotal
          /\ Len(crowd) > 2 => Len(runs) <= 1
          /\ arg = <<"behaviorMetrics", Expand(runs \o crowd, 1)>>
    /\ out = <<>> /\ upc = "called"
    /\ services = FactoryInit.services /\ nextInst = FactoryInit.nextInst
    /\ envKeys = {}
    /\ IdleFactoryAux /\ IdlePipeline /\ IdleForensic /\ IdleParser

ProfileBehavior ==
    /\ upc = "called" /\ arg[1] = "behaviorMetrics"
    /\ out' = behaviorMetrics(arg[2])
    /\ upc' = "returned"
    /\ UNCHANGED statisticsRest

NextBehavior == ProfileBehavior

SpecBehavior == InitBehavior /\ [][NextBehavior]_vars

\* The actors of the rows of the call.
Actors == {EmployeeName(arg[2][i]) : i \in 1..Len(arg[2])}

\* The remarks of an actor: the texts of the actor's rows that are not
\* blank, without the white space around them.
RemarksOf(actor) ==
    LET rows == SelectSeq(arg[2], LAMBDA step : EmployeeName(step) = actor
                                                   /\ TrimText(step.lifetimeRemarks) # "")
    IN [i \in 1..Len(rows) |-> TrimText(rows[i].lifetimeRemarks)]

\* How often the most frequent of the remarks occurs.
MostFrequent(remarks) ==
    LET times(text) == Cardinality({i \in 1..Len(remarks) : remarks[i] = text})
    IN IF remarks = <<>> THEN 0
       ELSE CHOOSE c \in {times(text) : text \in Range(remarks)} :
               \A text \in Range(remarks) : times(text) <= c

HasFlag(type, actor) ==
    \E i \in 1..Len(out.redFlags) :
        out.redFlags[i].type = type /\ out.redFlags[i].entity = actor

\* C23: analyzeWorkflowData returns a repeated-remark flag for every actor
\* with more than 5 remarks of which the most frequent is more than 60%,
\* CRITICAL when it is more than 80% and HIGH otherwise, and for no other
\* actor.
C23_RepeatedRemarkFlagged ==
    (upc = "returned" /\ arg[1] = "behaviorMetrics")
        => \A actor \in Actors :
              LET remarks == RemarksOf(actor)
                  top == MostFrequent(remarks)
                  due == Len(remarks) > 5 /\ 10 * top > 6 * Len(remarks)
              IN /\ due <=> HasFlag("REPEATED_REMARK", actor)
                 /\ \A i \in 1..Len(out.redFlags) :
                       (out.redFlags[i].type = "REPEATED_REMARK"
                           /\ out.redFlags[i].entity = actor)
                          => out.redFlags[i].severity
                                = IF 10 * top > 8 * Len(remarks) THEN "CRITICAL" ELSE "HIGH"

\* C24: analyzeWorkflowData returns a delay-outlier flag for every actor
\* with more than 5 steps whose mean delay is above the global mean plus
\* one standard deviation, whatever the actor's name and remark texts.
C24_DelayOutlierFlagged ==
    (upc = "returned" /\ arg[1] = "behaviorMetrics")
        => \A actor \in Actors :
              LET mine == SelectSeq(arg[2], LAMBDA step : EmployeeName(step) = actor)
              IN (Len(mine) > 5
                    /\ 100 * Sum(DaysOf(mine))
                          > (out.avgDaysRested + out.stdDaysRested) * Len(mine))
                    => HasFlag("UNUSUAL_DELAY", actor)

(***************************************************************************)
(* SpecClassify: ruleBasedDelayClassification on any short remark.         *)
(***************************************************************************)
MaxWords == 3

\* Words of the remarks: a keyword of every rule, some with capital
\* letters, and a word that is no keyword.
ClassifyWords == {"Missing", "response", "APPROVAL", "technical review", "late", "Late",
                  "system", "down", "Audit", "legal", "xyz"}

InitClassify ==
    /\ \E remark \in SeqsUpTo(ClassifyWords, MaxWords) :
          arg = <<"ruleBasedDelayClassification", remark>>
    /\ out = <<>> /\ upc = "called"
    /\ services = FactoryInit.services /\ nextInst = FactoryInit.nextInst
    /\ envKeys = {}
    /\ IdleFactoryAux /\ IdlePipeline /\ IdleForensic /\ IdleParser

Classify ==
    /\ upc = "called" /\ arg[1] = "ruleBasedDelayClassification"
    /\ out' = ruleBasedDelayClassification(arg[2])
    /\ upc' = "returned"
    /\ UNCHANGED statisticsRest

NextClassify == Classify

SpecClassify == InitClassify /\ [][NextClassify]_vars

\* The rules in their order: the keywords and the category of each.
RuleOrder ==
    << <<{"missing", "incomplete", "incorrect", "invalid", "document"},
         "Documentation Issues">>,
       <<{"understand", "unclear", "language", "response"}, "Communication Gaps">>,
       <<{"approval", "coordination", "inspection", "verification", "technical review"},
         "Process Bottlenecks">>,
       <<{"late", "non-compliance", "payment", "unavailable"}, "Applicant-Side Issues">>,
       <<{"delayed processing", "workload", "system", "server", "down"},
         "Employee/System-Side Issues">>,
       <<{"third-party", "clearance", "utility", "audit"}, "External Dependencies">>,
       <<{"complex", "dispute", "legal", "policy"}, "Complexity/Special Cases">> >>

\* A keyword of the rule occurs in the remark, in any case of its letters.
RuleMatches(rule, remark) ==
    \E i \in 1..Len(remark), kw \in rule[1] : LowerOf(remark[i]) = kw

\* C25: ruleBasedDelayClassification returns the category of the first
\* rule, in the fixed order of the seven rules, of which a keyword occurs
\* in the remark whatever the case of its letters, and Uncategorized when
\* there is no such rule; the result is one of these eight values.
C25_FirstMatchingRuleWins ==
    (upc = "returned" /\ arg[1] = "ruleBasedDelayClassification")
        => /\ out \in FixedCategories \cup {"Uncategorized"}
           /\ \A k \in 1..Len(RuleOrder) :
                 (RuleMatches(RuleOrder[k], arg[2])
                     /\ \A j \in 1..(k - 1) : ~RuleMatches(RuleOrder[j], arg[2]))
                    => out = RuleOrder[k][2]
           /\ (\A k \in 1..Len(RuleOrder) : ~RuleMatches(RuleOrder[k], arg[2]))
                 => out = "Uncategorized"

\* A remark with a keyword of the fourth rule before a keyword, written
\* with a capital, of the first rule: the first rule gave the category.
C25_Witness ==
    /\ upc = "returned" /\ arg[1] = "ruleBasedDelayClassification"
    /\ arg[2] = <<"late", "xyz", "Missing">>
    /\ out = "Documentation Issues"

(***************************************************************************)
(* Claims on the hierarchy of a project (Spec).                            *)
(***************************************************************************)
HierarchyBuilt == statistics # NotComputed /\ statistics.hasJdaHierarchy

\* the positions of the ticket-entries of a hierarchy
PositionsOf(h) ==
    {p \in [serviceIdx : 1..Len(h), ticketIdx : 1..MaxSteps] :
        p.ticketIdx <= Len(h[p.serviceIdx].tickets)}

EntryAt(h, p) == h[p.serviceIdx].tickets[p.ticketIdx]

\* C26: in every state of a project's hierarchy, once it is built and while
\* and after the generative stage refines it, the category of every
\* ticket-entry is one of the seven fixed categories or Uncategorized.
C26_CategoriesStayInFixedSet ==
    HierarchyBuilt =>
        \A p \in PositionsOf(statistics.jdaHierarchy) :
            EntryAt(statistics.jdaHierarchy, p).detectedCategory
                \in FixedCategories \cup {"Uncategorized"}

(***************************************************************************)
(* runForensicAnalysisForTicket: the transcript of a ticket.  A text is a  *)
(* sequence of pieces: words, the blank " ", the line break "\n" and the   *)
(* double quote; the transcript is the sequence of pieces of the string    *)
(* the code builds.  A row keeps ticketId, lifetimeRemarks,                *)
(* lifetimeRemarksFrom and rawRow's MaxEventTimeStamp ("" when missing).   *)
(***************************************************************************)
MaxHistory == 2

Whitespace == {" ", "\n"}

RECURSIVE TrimStart(_)
TrimStart(text) ==
    IF text # <<>> /\ Head(text) \in Whitespace THEN TrimStart(Tail(text)) ELSE text

RECURSIVE TrimEnd(_)
TrimEnd(text) ==
    IF text # <<>> /\ text[Len(text)] \in Whitespace
    THEN TrimEnd(SubSeq(text, 1, Len(text) - 1)) ELSE text

\* String.trim
TrimPieces(text) == TrimEnd(TrimStart(text))

\* .replace(/"/g, "'")
ReplaceQuotes(text) == [i \in DOMAIN text |-> IF text[i] = "\"" THEN "'" ELSE text[i]]

\* the template literal of one step
HistoryEntry(step) ==
    <<"[", IF step.timestamp = "" THEN "Unknown Date" ELSE step.timestamp,
      "] lifetimeRemarksFrom: \"">>
    \o ReplaceQuotes(TrimPieces(step.lifetimeRemarksFrom))
    \o <<"\" | lifetimeRemarks: \"">>
    \o ReplaceQuotes(TrimPieces(step.lifetimeRemarks))
    \o <<"\"">>

RECURSIVE JoinLines(_)
\* Array.join('\n')
JoinLines(entries) ==
    IF entries = <<>> THEN <<>>
    ELSE IF Len(entries) = 1 THEN entries[1]
    ELSE entries[1] \o <<"\n">> \o JoinLines(Tail(entries))

\* workflowSteps.filter(s => s.ticketId === ticket.id)
TicketSteps(steps, id) == SelectSeq(steps, LAMBDA s : s.ticketId = id)

\* conversationHistory, as it is handed to createRemarkAnalysisPrompt
conversationHistory(steps, id) ==
    LET ticketSteps == TicketSteps(steps, id)
    IN IF Len(ticketSteps) > 0
       THEN JoinLines([i \in 1..Len(ticketSteps) |-> HistoryEntry(ticketSteps[i])])
       ELSE <<"No remarks available">>

HistoryRows ==
    [ticketId : {"149353", "149354"},
     lifetimeRemarks : {<<>>, <<" ", "verify", "\n">>, <<"see", "\n", "note">>,
                        <<"\"", "ok", "\"">>},
     lifetimeRemarksFrom : {<<>>, <<"ROHYA", " ">>},
     timestamp : {"", "12/10/2025", "12/08/2025"}]

\* analyzeRemarks calls with the rows and a ticket id that is a key of its
\* ticketMap, so a ticket id of one of the rows.
InitTranscript ==
    /\ \E steps \in SeqsUpTo(HistoryRows, MaxHistory) :
          \E i \in 1..Len(steps) :
             arg = <<"runForensicAnalysisForTicket", steps, steps[i].ticketId>>
    /\ out = <<>> /\ upc = "called"
    /\ services = FactoryInit.services /\ nextInst = FactoryInit.nextInst
    /\ envKeys = {}
    /\ IdleFactoryAux /\ IdlePipeline /\ IdleForensic /\ IdleParser

ReconstructHistory ==
    /\ upc = "called" /\ arg[1] = "runForensicAnalysisForTicket"
    /\ out' = conversationHistory(arg[2], arg[3])
    /\ upc' = "returned"
    /\ UNCHANGED statisticsRest

NextTranscript == ReconstructHistory

SpecTranscript == InitTranscript /\ [][NextTranscript]_vars

RECURSIVE LinesOf(_, _)
\* the lines of a text: its pieces between two line breaks; cur is the line
\* being read
LinesOf(text, cur) ==
    IF text = <<>> THEN <<cur>>
    ELSE IF Head(text) = "\n" THEN <<cur>> \o LinesOf(Tail(text), <<>>)
    ELSE LinesOf(Tail(text), Append(cur, Head(text)))

\* C27: the transcript built for a ticket has exactly one line per workflow
\* step of that ticket, none for another ticket, and the lines stand in the
\* order of the steps in the input rows, whatever their timestamps: line i
\* is the line of the ticket's i-th row.
C27_OneLinePerStepInRowOrder ==
    (upc = "returned" /\ arg[1] = "runForensicAnalysisForTicket") =>
        LET lines == LinesOf(out, <<>>)
            mine == TicketSteps(arg[2], arg[3])
        IN /\ Len(lines) = Len(mine)
           /\ \A i \in 1..Len(mine) : lines[i] = HistoryEntry(mine[i])

(***************************************************************************)
(* Hierarchy refinement on rows of one service (SpecRefine): the pipeline  *)
(* of Spec, started on rows that put candidates and a non-candidate into   *)
(* the same group.                                                         *)
(***************************************************************************)
RefineKinds ==
    { [ticketId |-> 1, serviceName |-> "S1", remark |-> <<"xyz">>,
       totalDaysRested |-> 2, app |-> 1, del |-> 0],
      [ticketId |-> 2, serviceName |-> "S1", remark |-> <<"late">>,
       totalDaysRested |-> 2, app |-> 1, del |-> 4],
      [ticketId |-> 1, serviceName |-> "S1", remark |-> <<"missing", "xyz">>,
       totalDaysRested |-> 9, app |-> 0, del |-> 6] }

InitRefine ==
    /\ workflowSteps \in SeqsUpTo(RefineKinds, MaxSteps)
    /\ provider \in {"ollama", "openai"}
    /\ apiKey = NoKey
    /\ envKeys = {"openai"}
    /\ hasAI = TRUE
    /\ engine = "mathUtils"
    /\ services = FactoryInit.services
    /\ nextInst = FactoryInit.nextInst
    /\ pc = "start" /\ stage = "none" /\ run = 0 /\ aiService = NoInst
    /\ inflight = {} /\ timer = "none" /\ progress = 0
    /\ statistics = NotComputed
    /\ targetTickets = <<>> /\ processedCount = 0 /\ forensicReports = EmptyReports
    /\ attempts = NoAttempts /\ succeeded = {}
    /\ ticketsToAnalyze = <<>> /\ jdaI = 0 /\ cooldowns = 0 /\ stageLog = <<>>
    /\ failures = NoFailures /\ swallowed = NoFailures
    /\ outcome = "none" /\ stored = {} /\ returned = NoProject
    /\ IdleFactoryAux /\ IdleForensic /\ IdleParser /\ IdlePure

SpecRefine == InitRefine /\ [][Next]_vars

\* the entry at p as buildJDAHierarchy made it
BuiltEntry(p) == EntryAt(buildJDAHierarchy(workflowSteps), p)

\* the criterion of analyzeJDARemarks, on the entry as it was built
IsCandidate(p) ==
    BuiltEntry(p).detectedCategory = "Uncategorized" \/ BuiltEntry(p).daysRested > 7

\* C28: hierarchy refinement changes a ticket-entry only in the step in
\* which the provider call of that very entry settles with a parsed
\* response, and only when the entry was a candidate (Uncategorized, or more
\* than 7 days rested); a step in which a call fails or its response is
\* unrecoverable changes no entry at all, and no other step changes one.
C28_RefinementFrame ==
    [][ (HierarchyBuilt /\ HierarchyBuilt') =>
          /\ \A p \in PositionsOf(statistics.jdaHierarchy) :
                EntryAt(statistics'.jdaHierarchy, p) # EntryAt(statistics.jdaHierarchy, p)
                   => /\ IsCandidate(p)
                      /\ \E k \in DOMAIN ticketsToAnalyze :
                            /\ ticketsToAnalyze[k] = p
                            /\ \E reply \in JdaReplies :
                                  reply.kind = "parsed" /\ SettleJda(k, reply)
          /\ \A k \in DOMAIN ticketsToAnalyze :
                \A reply \in JdaReplies :
                   (reply.kind # "parsed" /\ SettleJda(k, reply))
                      => statistics'.jdaHierarchy = statistics.jdaHierarchy ]_vars

\* The stage is over for three rows of one service: the provider call of
\* one candidate failed and its entry is as built, another candidate's entry
\* is refined, and the non-candidate's entry is as built.
C28_Witness ==
    /\ HierarchyBuilt /\ outcome = "insights"
    /\ swallowed[run] /\ succeeded = TicketIdsOf(workflowSteps)
    /\ Len(statistics.jdaHierarchy) = 1
    /\ \E p1, p2, p3 \in PositionsOf(statistics.jdaHierarchy) :
          /\ ~IsCandidate(p1) /\ IsCandidate(p2) /\ IsCandidate(p3)
          /\ EntryAt(statistics.jdaHierarchy, p1) = BuiltEntry(p1)
          /\ EntryAt(statistics.jdaHierarchy, p2) # BuiltEntry(p2)
          /\ EntryAt(statistics.jdaHierarchy, p3) = BuiltEntry(p3)

(***************************************************************************)
(* Claims on the fallback of analyzeProjectData (Spec).                    *)
(***************************************************************************)
\* C29: in one analyzeProjectData call performAnalysis runs at most twice; a
\* second run is started only after the first run failed with a configured
\* provider other than ollama, and its service is the instance cached for
\* ollama, built without the credential of the request; with ollama
\* configured a failed first run is the end of the call: its error reaches
\* the caller and no second run is started.
C29_SecondRunOnCachedDefault ==
    /\ run \in 0..2
    /\ run = 2 =>
          /\ failures[1] /\ provider # "ollama"
          /\ aiService = services["ollama"]
          /\ aiService.provider = "ollama"
          /\ aiService.cred = "none"
          /\ apiKey # NoKey => aiService.cred # apiKey
    /\ (provider = "ollama" /\ run >= 1 /\ failures[1]) =>
          run = 1 /\ outcome = "threw" /\ stage = "failed"

\* The second run, after a first run on a service built with the key of
\* the request, has ended with insights.
C29_Witness ==
    /\ run = 2 /\ provider = "openai" /\ apiKey = "userKey"
    /\ failures[1] /\ outcome = "insights"
    /\ aiService = services["ollama"]

(***************************************************************************)
(* analyzeRemarks on rows whose dates may be malformed (SpecRemarks).  A   *)
(* row keeps ticketId and rawRow's ApplicationDate and DeliverdOn; a date  *)
(* is NoDate (missing, '' or 'NULL'), BadDate (a text that is not M/D/Y,   *)
(* whose parts convert to NaN) or the day number of an M/D/Y date.  The    *)
(* provider is the set of tickets for which runForensicAnalysisForTicket   *)
(* returns a report.                                                       *)
(***************************************************************************)
MaxTicketRows == 3

NoDate == 0
BadDate == -1

\* new Date(year, month - 1, day).getTime() in days
DayOf(date) == IF date = BadDate THEN NotANumber ELSE Finite(date)

\* Math.floor((end.getTime() - start.getTime()) / (1000 * 60 * 60 * 24))
DaysBetween(start, end) ==
    IF start = NotANumber \/ end = NotANumber THEN NotANumber
    ELSE Finite(end[2] - start[2])

\* the rows of ticketMap.get(id), in row order
RowsOfTicket(steps, id) == SelectSeq(steps, LAMBDA s : s.ticketId = id)

\* steps.find(...) for the two dates, then the delay (0 when one is missing)
ComputedDelay(steps, id) ==
    LET apps == SelectSeq(RowsOfTicket(steps, id), LAMBDA s : s.ApplicationDate # NoDate)
        dels == SelectSeq(RowsOfTicket(steps, id), LAMBDA s : s.DeliverdOn # NoDate)
    IN IF apps # <<>> /\ dels # <<>>
       THEN DaysBetween(DayOf(Head(apps).ApplicationDate), DayOf(Head(dels).DeliverdOn))
       ELSE Finite(0)

RECURSIVE ticketMapKeys(_, _)
\* the keys of ticketMap in insertion order
ticketMapKeys(steps, seen) ==
    IF steps = <<>> THEN <<>>
    ELSE IF Head(steps).ticketId \in seen
         THEN ticketMapKeys(Tail(steps), seen)
         ELSE <<Head(steps).ticketId>>
              \o ticketMapKeys(Tail(steps), seen \cup {Head(steps).ticketId})

validTickets(steps) ==
    LET keys == ticketMapKeys(steps, {})
    IN [i \in 1..Len(keys) |-> [id |-> keys[i], delay |-> ComputedDelay(steps, keys[i])]]

\* a.id.localeCompare(b.id)
LocaleCompare(x, y) == IF x < y THEN -1 ELSE IF x > y THEN 1 ELSE 0

\* (a, b) => b.delay - a.delay || a.id.localeCompare(b.id): a difference that
\* is 0 or NaN is falsy
CompareTickets(a, b) ==
    IF a.delay = NotANumber \/ b.delay = NotANumber \/ a.delay = b.delay
    THEN LocaleCompare(a.id, b.id)
    ELSE b.delay[2] - a.delay[2]

OrdersOf(list) ==
    {p \in [1..Len(list) -> Range(list)] :
        \A i, j \in 1..Len(list) : i # j => p[i] # p[j]}

\* the comparator orders the elements consistently
ConsistentOn(list) ==
    \A a, b, c \in Range(list) :
        (CompareTickets(a, b) < 0 /\ CompareTickets(b, c) < 0) => CompareTickets(a, c) < 0

\* Array.prototype.sort: the sorted list, or, for a comparator that is not
\* consistent on the elements, an order the implementation chooses
SortOutcomes(list) ==
    IF ConsistentOn(list)
    THEN {p \in OrdersOf(list) :
             \A i, j \in 1..Len(list) : i < j => CompareTickets(p[i], p[j]) < 0}
    ELSE OrdersOf(list)

ReportOf(id) == [present |-> TRUE, ticket |-> id]

\* analyzeRemarks from the sorted list on: the calls in order, the map of
\* reports and the single report
analyzeRemarks(tickets, ok) ==
    LET reported == {tickets[i].id : i \in 1..Len(tickets)} \cap ok
        reports == [id \in reported |-> ReportOf(id)]
    IN [analysed |-> [i \in 1..Len(tickets) |-> tickets[i].id],
        forensicReports |-> reports,
        remarkAnalysis |-> IF tickets # <<>> /\ tickets[1].id \in reported
                           THEN reports[tickets[1].id] ELSE NoReport]

RemarkRows ==
    {[ticketId |-> id, ApplicationDate |-> d[1], DeliverdOn |-> d[2]] :
        id \in 1..3, d \in {<<1, 6>>, <<1, 11>>, <<BadDate, 6>>, <<1, NoDate>>}}

InitRemarks ==
    /\ \E steps \in SeqsUpTo(RemarkRows, MaxTicketRows) :
          \E ok \in SUBSET {steps[i].ticketId : i \in 1..Len(steps)} :
             arg = <<"analyzeRemarks", steps, ok>>
    /\ out = <<>> /\ upc = "called"
    /\ services = FactoryInit.services /\ nextInst = FactoryInit.nextInst
    /\ envKeys = {}
    /\ IdleFactoryAux /\ IdlePipeline /\ IdleForensic /\ IdleParser

AnalyzeRemarks ==
    /\ upc = "called" /\ arg[1] = "analyzeRemarks"
    /\ \E tickets \in SortOutcomes(validTickets(arg[2])) :
          out' = analyzeRemarks(tickets, arg[3])
    /\ upc' = "returned"
    /\ UNCHANGED statisticsRest

NextRemarks == AnalyzeRemarks

SpecRemarks == InitRemarks /\ [][NextRemarks]_vars

\* C30: analyzeRemarks analyses the tickets in descending order of computed
\* delay, ties by ticket id (a delay that is not a number stands in no order
\* with another), and remarkAnalysis is the report of the first ticket
\* analysed: present exactly when that ticket's analysis succeeded, absent
\* otherwise, whatever forensicReports holds for other tickets.
C30_FirstTicketByDelayIsReported ==
    (upc = "returned" /\ arg[1] = "analyzeRemarks") =>
        LET order == out.analysed
            delay(i) == ComputedDelay(arg[2], order[i])
        IN /\ \A i, j \in 1..Len(order) :
                 (i < j /\ delay(i) # NotANumber /\ delay(j) # NotANumber) =>
                     \/ delay(i)[2] > delay(j)[2]
                     \/ delay(i)[2] = delay(j)[2] /\ order[i] < order[j]
           /\ out.remarkAnalysis.present <=> (order # <<>> /\ order[1] \in arg[3])
           /\ out.remarkAnalysis.present =>
                 /\ out.remarkAnalysis = ReportOf(order[1])
                 /\ out.remarkAnalysis = out.forensicReports[order[1]]
============================================================================
